---- MODULE Spec2Model ----
(***************************************************************************)
(* Model of generate-slides.js: parseMarkdown (a line-by-line parser that  *)
(* turns a markdown text into slide records) and generateHTML (the         *)
(* renderer of the slide fragments).                                       *)
(*                                                                         *)
(* A JavaScript string is a sequence of one-character strings, so that     *)
(* startsWith, indexOf, trim and the regular expressions of the source are *)
(* computed character by character.  An HTML fragment is a sequence of     *)
(* tokens: every literal piece of a template of the source is one token    *)
(* (a string of several characters), every character of interpolated data  *)
(* is a token of its own.                                                  *)
(***************************************************************************)
EXTENDS Integers, Sequences, FiniteSets, TLC

VARIABLES
    lines,             \* content.split('\n') of the parse under way
    pos,               \* index of the next line the for loop reads
    pc,                \* "parse" | "parsed" | "render" | "rendered"
    slides,            \* parseMarkdown: slides
    currentSlide,      \* parseMarkdown: currentSlide (NullSlide for null)
    inCodeBlock,       \* parseMarkdown: inCodeBlock
    codeBlockContent,  \* parseMarkdown: codeBlockContent
    codeBlockLang,     \* parseMarkdown: codeBlockLang
    slideHTML,         \* generateHTML: fragments produced by slides.map so far
    html,              \* generateHTML: the document returned
    runs,              \* history: <<input, result>> of every finished parse
    renders,           \* history: the fragments of every finished generateHTML
    now,               \* Date.now(): the clock of the machine
    srcFile,           \* the file text.md: [readable, content]
    outFile,           \* the file index.html: the document last written
    outBefore,         \* history: outFile when generateSlides was called
    writtenAt,         \* history: the clock at the last completed write, -1 for none
    caller,            \* the call of generateSlides under way: "single" | "start" | "watch"
    retval,            \* what generateSlides returned: "none" | "true" | "false"
    console,           \* the messages written by console.log and console.error
    exitCode,          \* the exit status of the process once pc = "exited"
    lastModified,      \* watch mode: let lastModified
    listening,         \* watch mode: the server of this process listens on port 3456
    polledAt,          \* watch mode: the clock when the watcher of text.md last ran
    statChanged,       \* watch mode: text.md changed since the watcher last ran
    responses,         \* history: the responses of the http server
    child              \* the spawned process: "none" | "booting" | "listening" | "conflict"

vars == <<lines, pos, pc, slides, currentSlide, inCodeBlock, codeBlockContent,
          codeBlockLang, slideHTML, html, runs, renders, now, srcFile, outFile,
          outBefore, writtenAt, caller, retval, console, exitCode, lastModified,
          listening, polledAt, statChanged, responses, child>>

\* the files, the clock and the state of the process around one call
fileVars == <<srcFile, outFile, outBefore, writtenAt>>

processVars == <<caller, retval, console, exitCode>>

watchVars == <<lastModified, listening, polledAt, statChanged, responses, child>>

parseVars == <<slides, currentSlide, inCodeBlock, codeBlockContent, codeBlockLang>>

-----------------------------------------------------------------------------
(* Bounds of the model.                                                    *)

MaxLines == 3
MaxLineLen == 4
MaxReLines == 2
MaxRuns == 2
MaxItems == 7
MaxBlocks == 3
MaxCodeLen == 3
MaxSlides == 2
MaxRenders == 2
MaxClock == 2
MaxResponses == 2

-----------------------------------------------------------------------------
(* The files, the clock and the process when parseMarkdown or generateHTML *)
(* is called by itself, outside generateSlides.                            *)

NoFile == [readable |-> FALSE, content |-> <<>>]

NoProcess ==
    /\ now = 0
    /\ srcFile = NoFile
    /\ outFile = <<>>
    /\ outBefore = <<>>
    /\ writtenAt = -1
    /\ caller = "none"
    /\ retval = "none"
    /\ console = <<>>
    /\ exitCode = 0
    /\ lastModified = 0
    /\ listening = FALSE
    /\ polledAt = 0
    /\ statChanged = FALSE
    /\ responses = <<>>
    /\ child = "none"

-----------------------------------------------------------------------------
(* JavaScript string primitives over sequences of characters.              *)

\* \s of the regular expressions and the characters trim() removes
IsSpace(c) == c \in {" ", "\t"}

\* \d
IsDigit(c) == c \in {"0", "1", "2", "3", "4", "5", "6", "7", "8", "9"}

\* String.prototype.startsWith
StartsWith(s, p) == Len(s) >= Len(p) /\ SubSeq(s, 1, Len(p)) = p

\* String.prototype.substring(from) with a 0-based from
SubstringFrom(s, from) == SubSeq(s, from + 1, Len(s))

\* String.prototype.includes for a single character
IncludesChar(s, c) == \E k \in 1..Len(s) : s[k] = c

\* String.prototype.includes for a string
Includes(s, p) == \E k \in 1..(Len(s) - Len(p) + 1) : SubSeq(s, k, k + Len(p) - 1) = p

\* String.prototype.indexOf for a single character, 1-based, 0 when absent
IndexOfChar(s, c) ==
    IF IncludesChar(s, c) THEN CHOOSE k \in 1..Len(s) : s[k] = c /\ \A j \in 1..(k - 1) : s[j] # c
    ELSE 0

\* String.prototype.trim
Trim(s) ==
    IF \A k \in 1..Len(s) : IsSpace(s[k]) THEN <<>>
    ELSE LET first == CHOOSE k \in 1..Len(s) : ~IsSpace(s[k]) /\ \A j \in 1..(k - 1) : IsSpace(s[j])
             last == CHOOSE k \in 1..Len(s) : ~IsSpace(s[k]) /\ \A j \in (k + 1)..Len(s) : IsSpace(s[j])
         IN SubSeq(s, first, last)

\* number of leading whitespace characters of s from index k on
RECURSIVE SpaceRun(_, _)
SpaceRun(s, k) == IF k <= Len(s) /\ IsSpace(s[k]) THEN 1 + SpaceRun(s, k + 1) ELSE 0

\* mutant of MatchHeader: the regular expressions lack the \s+
MatchHeaderHashesOnly(line, n) ==
    /\ Len(line) >= n + 1
    /\ \A k \in 1..n : line[k] = "#"

\* line.match(/^#\s+/), /^##\s+/, /^###\s+/: n hashes, then at least one \s
MatchHeader(line, n) ==
    /\ Len(line) >= n + 1
    /\ \A k \in 1..n : line[k] = "#"
    /\ IsSpace(line[n + 1])

\* line.replace(/^#\s+/, '').trim() and its ## and ### forms
HeaderText(line, n) == Trim(SubstringFrom(line, n + SpaceRun(line, n + 1)))

-----------------------------------------------------------------------------
(* Records.  A block carries the fields of all six block types, the ones   *)
(* its type does not use being empty.  The field "at" of a block and of a  *)
(* slide is a history field, absent from the source: the number of the     *)
(* line whose processing created the block or the slide.                   *)

NullSlide == [type |-> "null", hasTitle |-> FALSE, title |-> <<>>, content |-> <<>>, at |-> 0]

\* { type: 'content', content: [] }
ContentSlide(n) == [type |-> "content", hasTitle |-> FALSE, title |-> <<>>, content |-> <<>>, at |-> n]

\* { type: 'title' | 'section', title: ..., content: [] }
HeaderSlide(kind, title, n) == [type |-> kind, hasTitle |-> TRUE, title |-> title, content |-> <<>>, at |-> n]

EmptyBlock == [type |-> "", text |-> <<>>, key |-> <<>>, value |-> <<>>, alt |-> <<>>,
               src |-> <<>>, language |-> <<>>, at |-> 0]

\* smallest index k >= from with s[k] = c, 0 when there is none
FirstIndexFrom(s, c, from) ==
    IF \E k \in from..Len(s) : s[k] = c
    THEN CHOOSE k \in from..Len(s) : s[k] = c /\ \A j \in from..(k - 1) : s[j] # c
    ELSE 0

-----------------------------------------------------------------------------
(* Literals of parseMarkdown.                                              *)

\* TLA+ strings admit neither the backtick nor the em-dash (U+2014): the model
\* writes them "~" and "@", two characters no input of the model uses otherwise.
Backtick == "~"
EmDash == "@"

FenceMarker == <<Backtick, Backtick, Backtick>>
SlidesPrefix == <<"s", "l", "i", "d", "e", "s", ":">>
AlsoSharePrefix == <<"A", "l", "s", "o", " ", "s", "h", "a", "r", "e", " ", "w", "i", "t", "h">>
HrMarker == <<"<", "h", "r", ">">>
DashMarker == <<"-", "-", "-">>
ListMarker == <<"-", " ">>
HttpPrefix == <<"h", "t", "t", "p">>

-----------------------------------------------------------------------------
(* The tests of the loop body of parseMarkdown.                            *)

\* line.startsWith of the three-backtick fence marker
IsFence(line) == StartsWith(line, FenceMarker)

\* line.startsWith('slides:') || line.startsWith('Also share with')
IsMeta(line) == StartsWith(line, SlidesPrefix) \/ StartsWith(line, AlsoSharePrefix)

\* line.trim() === '<hr>' || line.trim() === '---'
IsBreak(line) == Trim(line) = HrMarker \/ Trim(line) = DashMarker

\* key and value of the key-value test
StatKey(line) == Trim(SubSeq(line, 1, IndexOfChar(line, ":") - 1))
StatValue(line) == Trim(SubSeq(line, IndexOfChar(line, ":") + 1, Len(line)))

\* value.match(/[\d,]+/): some character of the class [\d,]
ValueMatch(value) == \E k \in 1..Len(value) : IsDigit(value[k]) \/ value[k] = ","

\* mutant of IsStat: the test !key.includes(' ') is missing
IsStatAnyKey(line, inCode) ==
    /\ IncludesChar(line, ":")
    /\ ~StartsWith(line, HttpPrefix)
    /\ ~inCode
    /\ StatKey(line) # <<>>
    /\ StatValue(line) # <<>>
    /\ ValueMatch(StatValue(line))

\* the two nested conditions of the key-value pair branch
IsStat(line, inCode) ==
    /\ IncludesChar(line, ":")
    /\ ~StartsWith(line, HttpPrefix)
    /\ ~inCode
    /\ StatKey(line) # <<>>
    /\ StatValue(line) # <<>>
    /\ ~IncludesChar(StatKey(line), " ")
    /\ ValueMatch(StatValue(line))

\* /!\[([^\]]*)\]\(([^)]+)\)/ matched with the "!" at index s
ImageAt(line, s) ==
    LET m == FirstIndexFrom(line, "]", s + 2)
        e == FirstIndexFrom(line, ")", m + 3)
    IN /\ s + 1 <= Len(line)
       /\ line[s] = "!"
       /\ line[s + 1] = "["
       /\ m # 0
       /\ m + 2 <= Len(line)
       /\ line[m + 1] = "("
       /\ line[m + 2] # ")"
       /\ e # 0

\* line.match(/!\[([^\]]*)\]\(([^)]+)\)/) is not null
IsImage(line) == \E s \in 1..Len(line) : ImageAt(line, s)

\* match[1] and match[2] of the leftmost match
ImageMatch(line) ==
    LET s == CHOOSE k \in 1..Len(line) : ImageAt(line, k) /\ \A j \in 1..(k - 1) : ~ImageAt(line, j)
        m == FirstIndexFrom(line, "]", s + 2)
        e == FirstIndexFrom(line, ")", m + 3)
    IN [alt |-> SubSeq(line, s + 2, m - 1), src |-> SubSeq(line, m + 2, e - 1)]

\* Array.prototype.join('\n') of an array of strings
RECURSIVE JoinLines(_)
JoinLines(ls) ==
    IF ls = <<>> THEN <<>>
    ELSE IF Len(ls) = 1 THEN ls[1]
    ELSE ls[1] \o <<"\n">> \o JoinLines(Tail(ls))

\* mutant of LineKind: the test of inCodeBlock that collects the lines of a
\* fence is missing
LineKindIgnoringFence(line, inCode) ==
    IF IsFence(line) THEN (IF inCode THEN "fence-close" ELSE "fence-open")
    ELSE IF IsMeta(line) THEN "meta"
    ELSE IF IsBreak(line) THEN "break"
    ELSE IF MatchHeader(line, 1) THEN "title"
    ELSE IF MatchHeader(line, 2) THEN "section"
    ELSE IF MatchHeader(line, 3) THEN "subtitle"
    ELSE IF StartsWith(line, ListMarker) THEN "list-item"
    ELSE IF IsStat(line, FALSE) THEN "stat"
    ELSE IF IsImage(line) THEN "image"
    ELSE IF Trim(line) # <<>> THEN "text"
    ELSE "blank"

\* The branch of the loop body that handles the line: the first test that
\* matches, in the order of the source.
LineKind(line, inCode) ==
    IF IsFence(line) THEN (IF inCode THEN "fence-close" ELSE "fence-open")
    ELSE IF inCode THEN "code"
    ELSE IF IsMeta(line) THEN "meta"
    ELSE IF IsBreak(line) THEN "break"
    ELSE IF MatchHeader(line, 1) THEN "title"
    ELSE IF MatchHeader(line, 2) THEN "section"
    ELSE IF MatchHeader(line, 3) THEN "subtitle"
    ELSE IF StartsWith(line, ListMarker) THEN "list-item"
    ELSE IF IsStat(line, inCode) THEN "stat"
    ELSE IF IsImage(line) THEN "image"
    ELSE IF Trim(line) # <<>> THEN "text"
    ELSE "blank"

\* mutant of Finalized: the slide is pushed whether or not it has content
FinalizedAlways(done, cur) ==
    IF cur.type # "null" THEN Append(done, cur) ELSE done

\* if (currentSlide && currentSlide.content.length > 0) slides.push(currentSlide)
Finalized(done, cur) ==
    IF cur.type # "null" /\ Len(cur.content) > 0 THEN Append(done, cur) ELSE done

\* mutant of Pushed: unshift in the place of push
PushedFirst(cur, block, n) ==
    LET open == IF cur.type = "null" THEN ContentSlide(n) ELSE cur
    IN [open EXCEPT !.content = <<block>> \o @]

\* if (!currentSlide) currentSlide = {type: 'content', content: []};
\* currentSlide.content.push(block)
Pushed(cur, block, n) ==
    LET open == IF cur.type = "null" THEN ContentSlide(n) ELSE cur
    IN [open EXCEPT !.content = Append(@, block)]

-----------------------------------------------------------------------------
(* parseMarkdown: one action per branch of the body of the for loop.       *)

Reading(kind) ==
    /\ pc = "parse"
    /\ pos <= Len(lines)
    /\ LineKind(lines[pos], inCodeBlock) = kind

Advance ==
    /\ pos' = pos + 1
    /\ UNCHANGED <<lines, pc, slideHTML, html, runs, renders, now, fileVars, processVars, watchVars>>

FenceOpen ==
    /\ Reading("fence-open")
    /\ inCodeBlock' = TRUE
    /\ codeBlockLang' = Trim(SubstringFrom(lines[pos], 3))
    /\ codeBlockContent' = <<>>
    /\ UNCHANGED <<slides, currentSlide>>
    /\ Advance

\* mutant of FenceClose: only a line that holds nothing but the marker closes
\* the fence, any other line that starts with it is collected
FenceCloseBareOnly ==
    /\ Reading("fence-close")
    /\ IF Trim(lines[pos]) = FenceMarker
       THEN /\ inCodeBlock' = FALSE
            /\ currentSlide' = Pushed(currentSlide,
                                      [EmptyBlock EXCEPT !.type = "code",
                                                         !.language = codeBlockLang,
                                                         !.text = JoinLines(codeBlockContent),
                                                         !.at = pos],
                                      pos)
            /\ codeBlockContent' = <<>>
            /\ codeBlockLang' = <<>>
            /\ UNCHANGED slides
       ELSE /\ codeBlockContent' = Append(codeBlockContent, lines[pos])
            /\ UNCHANGED <<slides, currentSlide, inCodeBlock, codeBlockLang>>
    /\ Advance

FenceClose ==
    /\ Reading("fence-close")
    /\ inCodeBlock' = FALSE
    /\ currentSlide' = Pushed(currentSlide,
                              [EmptyBlock EXCEPT !.type = "code",
                                                 !.language = codeBlockLang,
                                                 !.text = JoinLines(codeBlockContent),
                                                 !.at = pos],
                              pos)
    /\ codeBlockContent' = <<>>
    /\ codeBlockLang' = <<>>
    /\ UNCHANGED slides
    /\ Advance

\* mutant of CodeLine: the tests of the slide break and of the headers come
\* before the test of inCodeBlock
CodeLineChecksBoundary ==
    /\ Reading("code")
    /\ IF LineKind(lines[pos], FALSE) \in {"break", "title", "section"}
       THEN /\ slides' = Finalized(slides, currentSlide)
            /\ currentSlide' = NullSlide
            /\ UNCHANGED <<inCodeBlock, codeBlockContent, codeBlockLang>>
       ELSE /\ codeBlockContent' = Append(codeBlockContent, lines[pos])
            /\ UNCHANGED <<slides, currentSlide, inCodeBlock, codeBlockLang>>
    /\ Advance

CodeLine ==
    /\ Reading("code")
    /\ codeBlockContent' = Append(codeBlockContent, lines[pos])
    /\ UNCHANGED <<slides, currentSlide, inCodeBlock, codeBlockLang>>
    /\ Advance

\* mutant of MetaLine: the line closes the open slide
MetaLineClosesSlide ==
    /\ Reading("meta")
    /\ slides' = Finalized(slides, currentSlide)
    /\ currentSlide' = NullSlide
    /\ UNCHANGED <<inCodeBlock, codeBlockContent, codeBlockLang>>
    /\ Advance

MetaLine ==
    /\ Reading("meta")
    /\ UNCHANGED parseVars
    /\ Advance

\* mutant of BreakLine: currentSlide is not reset to null
BreakLineKeepsSlide ==
    /\ Reading("break")
    /\ slides' = Finalized(slides, currentSlide)
    /\ UNCHANGED <<currentSlide, inCodeBlock, codeBlockContent, codeBlockLang>>
    /\ Advance

\* mutant of BreakLine: the open slide is dropped without being pushed
BreakLineDropsSlide ==
    /\ Reading("break")
    /\ currentSlide' = NullSlide
    /\ UNCHANGED <<slides, inCodeBlock, codeBlockContent, codeBlockLang>>
    /\ Advance

BreakLine ==
    /\ Reading("break")
    /\ slides' = Finalized(slides, currentSlide)
    /\ currentSlide' = NullSlide
    /\ UNCHANGED <<inCodeBlock, codeBlockContent, codeBlockLang>>
    /\ Advance

TitleLine ==
    /\ Reading("title")
    /\ slides' = Finalized(slides, currentSlide)
    /\ currentSlide' = HeaderSlide("title", HeaderText(lines[pos], 1), pos)
    /\ UNCHANGED <<inCodeBlock, codeBlockContent, codeBlockLang>>
    /\ Advance

\* mutant of SectionLine: the open slide is replaced without being pushed
SectionLineDropsOpen ==
    /\ Reading("section")
    /\ currentSlide' = HeaderSlide("section", HeaderText(lines[pos], 2), pos)
    /\ UNCHANGED <<slides, inCodeBlock, codeBlockContent, codeBlockLang>>
    /\ Advance

SectionLine ==
    /\ Reading("section")
    /\ slides' = Finalized(slides, currentSlide)
    /\ currentSlide' = HeaderSlide("section", HeaderText(lines[pos], 2), pos)
    /\ UNCHANGED <<inCodeBlock, codeBlockContent, codeBlockLang>>
    /\ Advance

\* the content branches: one block pushed on the current slide
PushLine(block) ==
    /\ currentSlide' = Pushed(currentSlide, [block EXCEPT !.at = pos], pos)
    /\ UNCHANGED <<slides, inCodeBlock, codeBlockContent, codeBlockLang>>
    /\ Advance

SubtitleLine ==
    /\ Reading("subtitle")
    /\ PushLine([EmptyBlock EXCEPT !.type = "subtitle", !.text = HeaderText(lines[pos], 3)])

ListItemLine ==
    /\ Reading("list-item")
    /\ PushLine([EmptyBlock EXCEPT !.type = "list-item", !.text = Trim(SubstringFrom(lines[pos], 2))])

StatLine ==
    /\ Reading("stat")
    /\ PushLine([EmptyBlock EXCEPT !.type = "stat", !.key = StatKey(lines[pos]),
                                   !.value = StatValue(lines[pos])])

ImageLine ==
    /\ Reading("image")
    /\ PushLine([EmptyBlock EXCEPT !.type = "image", !.alt = ImageMatch(lines[pos]).alt,
                                   !.src = ImageMatch(lines[pos]).src])

\* mutant of TextLine: without if (!currentSlide) the push on null throws
TextLineNeedsOpenSlide ==
    /\ Reading("text")
    /\ currentSlide.type # "null"
    /\ PushLine([EmptyBlock EXCEPT !.type = "text", !.text = Trim(lines[pos])])

TextLine ==
    /\ Reading("text")
    /\ PushLine([EmptyBlock EXCEPT !.type = "text", !.text = Trim(lines[pos])])

\* mutant of BlankLine: an empty line ends the slide as a break does
BlankLineClosesSlide ==
    /\ Reading("blank")
    /\ slides' = Finalized(slides, currentSlide)
    /\ currentSlide' = NullSlide
    /\ UNCHANGED <<inCodeBlock, codeBlockContent, codeBlockLang>>
    /\ Advance

\* a line no test matches: the loop goes on to the next line
BlankLine ==
    /\ Reading("blank")
    /\ UNCHANGED parseVars
    /\ Advance

\* mutant of EndOfInput: the lines of a fence still open are pushed as a
\* code block before the last slide is pushed
EndOfInputFlushesFence ==
    /\ pc = "parse"
    /\ pos > Len(lines)
    /\ slides' = Finalized(slides,
                           IF inCodeBlock
                           THEN Pushed(currentSlide,
                                       [EmptyBlock EXCEPT !.type = "code",
                                                          !.language = codeBlockLang,
                                                          !.text = JoinLines(codeBlockContent),
                                                          !.at = pos],
                                       pos)
                           ELSE currentSlide)
    /\ pc' = "parsed"
    /\ runs' = Append(runs, [input |-> lines, result |-> slides'])
    /\ UNCHANGED <<lines, pos, currentSlide, inCodeBlock, codeBlockContent, codeBlockLang, slideHTML, html>>
    /\ UNCHANGED <<renders, now, fileVars, processVars, watchVars>>

\* mutant of EndOfInput: slides is returned without the last slide
EndOfInputForgetsOpen ==
    /\ pc = "parse"
    /\ pos > Len(lines)
    /\ pc' = "parsed"
    /\ runs' = Append(runs, [input |-> lines, result |-> slides])
    /\ UNCHANGED <<lines, pos, slides, currentSlide, inCodeBlock, codeBlockContent, codeBlockLang, slideHTML, html>>
    /\ UNCHANGED <<renders, now, fileVars, processVars, watchVars>>

\* after the loop: the last slide is pushed and slides is returned
EndOfInput ==
    /\ pc = "parse"
    /\ pos > Len(lines)
    /\ slides' = Finalized(slides, currentSlide)
    /\ pc' = "parsed"
    /\ runs' = Append(runs, [input |-> lines, result |-> slides'])
    /\ UNCHANGED <<lines, pos, currentSlide, inCodeBlock, codeBlockContent, codeBlockLang, slideHTML, html>>
    /\ UNCHANGED <<renders, now, fileVars, processVars, watchVars>>

ParseStep ==
    \/ FenceOpen
    \/ FenceClose
    \/ CodeLine
    \/ MetaLine
    \/ BreakLine
    \/ TitleLine
    \/ SectionLine
    \/ SubtitleLine
    \/ ListItemLine
    \/ StatLine
    \/ ImageLine
    \/ TextLine
    \/ BlankLine
    \/ EndOfInput

-----------------------------------------------------------------------------
(* Literal pieces of the templates of generateHTML that the properties     *)
(* below look for in a fragment.                                           *)

TopListOpen == "            <div class=\"top-list\">\n"
UlOpen == "            <ul>\n"
H3Open == "            <h3>"
H3Close == "</h3>\n"
StatGridOpen == "            <div class=\"stat-grid\">\n"
StatCardOpen == "                <div class=\"stat-card\">\n"
TopItemOpen == "                <div class=\"top-item\">\n"
LiOpen == "                <li>"
LiClose == "</li>\n"
POpen == "            <p>"
PClose == "</p>\n"
PreOpen == "            <pre class=\"code-block"
CodeOpen == "\"><code>"
CodeClose == "</code></pre>\n"
ImgOpen == "            <img src=\""
ImgAlt == "\" alt=\""
PromptOpen == "<span class=\"terminal-prompt\">"
DividerTag == "            <div class=\"divider\"></div>\n"
PromptClose == "</span>"
BigNumberOpen == "                    <span class=\"big-number\">"
SpanCloseLine == "</span>\n"

-----------------------------------------------------------------------------
(* String helpers of generateHTML.                                         *)

\* String.prototype.split(c) for a single character c
RECURSIVE SplitOn(_, _)
SplitOn(s, c) ==
    LET k == IndexOfChar(s, c)
    IN IF k = 0 THEN <<s>>
       ELSE <<SubSeq(s, 1, k - 1)>> \o SplitOn(SubSeq(s, k + 1, Len(s)), c)

\* concatenation of a sequence of sequences
RECURSIVE Flatten(_)
Flatten(ss) == IF ss = <<>> THEN <<>> ELSE ss[1] \o Flatten(Tail(ss))

\* Array.prototype.filter(c => c.type === type)
OfType(content, type) == SelectSeq(content, LAMBDA c : c.type = type)

UpperCase == <<"A", "B", "C", "D", "E", "F", "G", "H", "I", "J", "K", "L", "M",
               "N", "O", "P", "Q", "R", "S", "T", "U", "V", "W", "X", "Y", "Z">>
LowerCase == <<"a", "b", "c", "d", "e", "f", "g", "h", "i", "j", "k", "l", "m",
               "n", "o", "p", "q", "r", "s", "t", "u", "v", "w", "x", "y", "z">>

\* String.prototype.toLowerCase
ToLowerCase(s) ==
    [k \in 1..Len(s) |->
        IF \E u \in 1..26 : UpperCase[u] = s[k]
        THEN LowerCase[CHOOSE u \in 1..26 : UpperCase[u] = s[k]]
        ELSE s[k]]

PopQuizMarker == <<"p", "o", "p", " ", "q", "u", "i", "z", " ", "w", "a", "r", "n", "i", "n", "g">>
TerminalLang == <<"t", "e", "r", "m", "i", "n", "a", "l">>

\* mutant of EscapeChar: the single quote is missing from the map
EscapeCharNoApostrophe(c) ==
    CASE c = "&" -> <<"&", "a", "m", "p", ";">>
      [] c = "<" -> <<"&", "l", "t", ";">>
      [] c = ">" -> <<"&", "g", "t", ";">>
      [] c = "\"" -> <<"&", "q", "u", "o", "t", ";">>
      [] OTHER -> <<c>>

\* the map of escapeHtml
EscapeChar(c) ==
    CASE c = "&" -> <<"&", "a", "m", "p", ";">>
      [] c = "<" -> <<"&", "l", "t", ";">>
      [] c = ">" -> <<"&", "g", "t", ";">>
      [] c = "\"" -> <<"&", "q", "u", "o", "t", ";">>
      [] c = "'" -> <<"&", "#", "0", "3", "9", ";">>
      [] OTHER -> <<c>>

\* escapeHtml: text.replace(/[&<>"']/g, m => map[m])
escapeHtml(text) == Flatten([k \in 1..Len(text) |-> EscapeChar(text[k])])

\* length of the run of characters of class cls (a set) in s from index k on
RECURSIVE RunLength(_, _, _)
RunLength(s, k, cls) == IF k <= Len(s) /\ s[k] \in cls THEN 1 + RunLength(s, k + 1, cls) ELSE 0

Digits == {"0", "1", "2", "3", "4", "5", "6", "7", "8", "9"}

-----------------------------------------------------------------------------
(* generateHTML: the stat cards.                                           *)

\* value.includes('(') && value.includes('%)')
HasPercentage(value) == IncludesChar(value, "(") /\ Includes(value, <<"%", ")">>)

\* /\(([\d.]+%)\)/ matched with the "(" at index s
PercentAt(value, s) ==
    LET n == RunLength(value, s + 1, Digits \cup {"."})
    IN /\ value[s] = "("
       /\ n >= 1
       /\ s + n + 2 <= Len(value)
       /\ value[s + n + 1] = "%"
       /\ value[s + n + 2] = ")"

\* value.match(/\(([\d.]+%)\)/) is not null
PercentMatches(value) == \E s \in 1..Len(value) : PercentAt(value, s)

\* value.match(/\(([\d.]+%)\)/)[1]
PercentGroup(value) ==
    LET s == CHOOSE k \in 1..Len(value) : PercentAt(value, k) /\ \A j \in 1..(k - 1) : ~PercentAt(value, j)
        n == RunLength(value, s + 1, Digits \cup {"."})
    IN SubSeq(value, s + 1, s + n + 1)

\* stat.key.replace(/_/g, ' ')
KeyLabel(key) == [k \in 1..Len(key) |-> IF key[k] = "_" THEN " " ELSE key[k]]

\* the body of stats.forEach: reading [1] of a null match throws a TypeError
StatThrows(stat) == HasPercentage(stat.value) /\ ~PercentMatches(stat.value)

StatCard(stat) ==
    LET value == stat.value
        mainValue == IF HasPercentage(value) THEN Trim(SplitOn(value, "(")[1]) ELSE value
    IN <<StatCardOpen>>
       \o <<BigNumberOpen>> \o mainValue \o <<SpanCloseLine>>
       \o <<"                    <span>">> \o KeyLabel(stat.key) \o <<"</span>\n">>
       \o (IF HasPercentage(value)
           THEN <<"                    <span class=\"percentage\">(">> \o PercentGroup(value) \o <<")</span>\n">>
           ELSE <<>>)
       \o <<"                </div>\n">>

\* if (stats.length > 0) { ... }
StatGrid(stats) ==
    IF Len(stats) > 0
    THEN <<StatGridOpen>>
         \o Flatten([k \in 1..Len(stats) |-> StatCard(stats[k])])
         \o <<"            </div>\n">>
    ELSE <<>>

-----------------------------------------------------------------------------
(* generateHTML: the list items.                                           *)

\* item.text.includes('—') && /\d+/.test(item.text)
LooksRanked(item) == IncludesChar(item.text, EmDash) /\ \E k \in 1..Len(item.text) : IsDigit(item.text[k])

\* const isRankedList = listItems.some(...)
IsRankedList(listItems) == \E k \in 1..Len(listItems) : LooksRanked(listItems[k])

\* mutant of UseGrid: the threshold is off by one
UseGridBelowSix(listItems) == IsRankedList(listItems) /\ Len(listItems) < 6

\* if (isRankedList && listItems.length <= 6): the grid, else the regular list
UseGrid(listItems) == IsRankedList(listItems) /\ Len(listItems) <= 6

\* item.text.split('—').map(p => p.trim())
ItemParts(item) ==
    LET parts == SplitOn(item.text, EmDash)
    IN [k \in 1..Len(parts) |-> Trim(parts[k])]

\* /\[([^\]]+)\]/ and /\(([^)]+)\)/ matched with the opening character at index k
GroupAt(s, k, open, close) ==
    /\ s[k] = open
    /\ k + 1 <= Len(s)
    /\ s[k + 1] # close
    /\ FirstIndexFrom(s, close, k + 2) # 0

GroupMatches(s, open, close) == \E k \in 1..Len(s) : GroupAt(s, k, open, close)

\* match[1] of the leftmost match
Group(s, open, close) ==
    LET k == CHOOSE i \in 1..Len(s) : GroupAt(s, i, open, close) /\ \A j \in 1..(i - 1) : ~GroupAt(s, j, open, close)
    IN SubSeq(s, k + 1, FirstIndexFrom(s, close, k + 2) - 1)

\* name.includes('](')
IsLink(name) == Includes(name, <<"]", "(">>)

\* stats.replace(/(\d+,?\d*)/g, '<strong>$1</strong>') from index k on
RECURSIVE Strong(_, _)
Strong(s, k) ==
    IF k > Len(s) THEN <<>>
    ELSE IF IsDigit(s[k])
    THEN LET n1 == RunLength(s, k, Digits)
             c == IF k + n1 <= Len(s) /\ s[k + n1] = "," THEN 1 ELSE 0
             n2 == RunLength(s, k + n1 + c, Digits)
             n == n1 + c + n2
         IN <<"<strong>">> \o SubSeq(s, k, k + n - 1) \o <<"</strong>">> \o Strong(s, k + n)
    ELSE <<s[k]>> \o Strong(s, k + 1)

\* the body of the forEach of the grid: reading [1] of a null match throws
TopItemThrows(item) ==
    LET parts == ItemParts(item)
    IN /\ Len(parts) = 2
       /\ IsLink(parts[1])
       /\ (~GroupMatches(parts[1], "[", "]") \/ ~GroupMatches(parts[1], "(", ")"))

TopItem(item) ==
    LET parts == ItemParts(item)
    IN IF Len(parts) = 2
       THEN LET name == parts[1]
                stats == parts[2]
            IN <<TopItemOpen>>
               \o (IF IsLink(name)
                   THEN <<"                    <a href=\"">> \o Group(name, "(", ")")
                        \o <<"\" class=\"domain\">">> \o Group(name, "[", "]") \o <<"</a>\n">>
                   ELSE <<"                    <span style=\"color: #7878EF; font-weight: 700;\">">> \o name
                        \o <<"</span>\n">>)
               \o <<"                    <span>">> \o Strong(stats, 1) \o <<"</span>\n">>
               \o <<"                </div>\n">>
       ELSE <<>>

\* /\[([^\]]+)\]\([^)]+\)/ matched with the "[" at index k
LinkAt(s, k) ==
    LET m == FirstIndexFrom(s, "]", k + 2)
    IN /\ s[k] = "["
       /\ k + 1 <= Len(s)
       /\ s[k + 1] # "]"
       /\ m # 0
       /\ m + 2 <= Len(s)
       /\ s[m + 1] = "("
       /\ s[m + 2] # ")"
       /\ FirstIndexFrom(s, ")", m + 3) # 0

\* text.replace(/\[([^\]]+)\]\([^)]+\)/g, '<span class="highlight">$1</span>') from index k on
RECURSIVE StripLinks(_, _)
StripLinks(s, k) ==
    IF k > Len(s) THEN <<>>
    ELSE IF LinkAt(s, k)
    THEN LET m == FirstIndexFrom(s, "]", k + 2)
             e == FirstIndexFrom(s, ")", m + 3)
         IN <<"<span class=\"highlight\">">> \o SubSeq(s, k + 1, m - 1) \o <<"</span>">>
            \o StripLinks(s, e + 1)
    ELSE <<s[k]>> \o StripLinks(s, k + 1)

\* text.replace(/^([^—]+)—/, '<span class="highlight">$1</span> —')
HighlightLabel(text) ==
    LET d == IndexOfChar(text, EmDash)
    IN IF d >= 2
       THEN <<"<span class=\"highlight\">">> \o SubSeq(text, 1, d - 1) \o <<"</span> ", EmDash>>
            \o SubSeq(text, d + 1, Len(text))
       ELSE text

\* the body of the forEach of the regular list
PlainItem(item) ==
    <<LiOpen>> \o StripLinks(HighlightLabel(item.text), 1) \o <<LiClose>>

ListThrows(listItems) ==
    UseGrid(listItems) /\ \E k \in 1..Len(listItems) : TopItemThrows(listItems[k])

\* if (listItems.length > 0) { ... }
ListLayout(listItems) ==
    IF Len(listItems) = 0 THEN <<>>
    ELSE IF UseGrid(listItems)
    THEN <<TopListOpen>>
         \o Flatten([k \in 1..Len(listItems) |-> TopItem(listItems[k])])
         \o <<"            </div>\n">>
    ELSE <<UlOpen>>
         \o Flatten([k \in 1..Len(listItems) |-> PlainItem(listItems[k])])
         \o <<"            </ul>\n">>

-----------------------------------------------------------------------------
(* generateHTML: code blocks, the other blocks and the slide fragment.     *)

\* the map callback of the terminal blocks
PromptLine(line) ==
    IF StartsWith(line, <<"$">>)
    THEN <<PromptOpen>> \o line \o <<PromptClose>>
    ELSE line

\* codeText: escapeHtml, then the prompt highlighting of a terminal block
CodeText(item) ==
    LET escaped == escapeHtml(item.text)
    IN IF item.language = TerminalLang
       THEN LET ls == SplitOn(escaped, "\n")
            IN JoinLines([k \in 1..Len(ls) |-> PromptLine(ls[k])])
       ELSE escaped

CodeBlock(item) ==
    <<PreOpen>>
    \o (IF item.language # <<>> THEN <<" language-">> \o item.language ELSE <<>>)
    \o <<CodeOpen>> \o CodeText(item) \o <<CodeClose>>

Subtitle(item) == <<H3Open>> \o item.text \o <<H3Close>>

Paragraph(item) == <<POpen>> \o item.text \o <<PClose>>

Image(item) ==
    <<ImgOpen>> \o item.src \o <<ImgAlt>> \o item.alt
    \o <<"\" class=\"slide-image\">\n">>

\* truthiness of slide.title
HasTitle(slide) == slide.hasTitle /\ slide.title # <<>>

IsPopQuizWarning(slide) == HasTitle(slide) /\ Includes(ToLowerCase(slide.title), PopQuizMarker)

\* mutant of IsTerminalSlide: without !slide.title
IsTerminalSlideIgnoresTitle(slide) ==
    \E k \in 1..Len(slide.content) :
        slide.content[k].type = "code" /\ slide.content[k].language = TerminalLang

IsTerminalSlide(slide) ==
    /\ ~HasTitle(slide)
    /\ \E k \in 1..Len(slide.content) :
          slide.content[k].type = "code" /\ slide.content[k].language = TerminalLang

\* mutant of Body: the code blocks are emitted before the text paragraphs
BodyCodeFirst(slide) ==
    LET Each(type, Op(_)) ==
            LET items == OfType(slide.content, type)
            IN Flatten([k \in 1..Len(items) |-> Op(items[k])])
    IN Each("subtitle", Subtitle)
       \o StatGrid(OfType(slide.content, "stat"))
       \o ListLayout(OfType(slide.content, "list-item"))
       \o Each("code", CodeBlock)
       \o Each("text", Paragraph)
       \o Each("image", Image)

\* the groups of blocks, in the order the callback emits them
Body(slide) ==
    LET Each(type, Op(_)) ==
            LET items == OfType(slide.content, type)
            IN Flatten([k \in 1..Len(items) |-> Op(items[k])])
    IN Each("subtitle", Subtitle)
       \o StatGrid(OfType(slide.content, "stat"))
       \o ListLayout(OfType(slide.content, "list-item"))
       \o Each("text", Paragraph)
       \o Each("code", CodeBlock)
       \o Each("image", Image)

\* the callback of slides.map throws for this slide
\* mutant of HasDivider: without slide.type === 'title'
HasDividerAnyKind(slide) == Len(OfType(slide.content, "text")) > 0

\* if (slide.type === 'title' && texts.length > 0)
HasDivider(slide) == slide.type = "title" /\ Len(OfType(slide.content, "text")) > 0

FragmentThrows(slide) ==
    \/ \E k \in 1..Len(slide.content) : slide.content[k].type = "stat" /\ StatThrows(slide.content[k])
    \/ ListThrows(OfType(slide.content, "list-item"))

\* the callback of slides.map: the fragment of one slide
Fragment(slide, index, total) ==
    <<"    <div class=\"slide">>
    \o (IF slide.type = "title" THEN <<" intro-slide">> ELSE <<>>)
    \o (IF IsPopQuizWarning(slide) THEN <<" pop-quiz-warning">> ELSE <<>>)
    \o (IF IsTerminalSlide(slide) THEN <<" terminal-slide">> ELSE <<>>)
    \o <<"\">\n", "        <div class=\"content\">\n">>
    \o (IF HasTitle(slide)
        THEN (IF slide.type = "title"
              THEN <<"            <h1>">> \o slide.title \o <<"</h1>\n">>
              ELSE <<"            <h2>">> \o slide.title \o <<"</h2>\n">>)
        ELSE <<>>)
    \o (IF HasDivider(slide) THEN <<DividerTag>> ELSE <<>>)
    \o Body(slide)
    \o <<"        </div>\n",
         "        <img src=\"favicon.png\" alt=\"Logo\" class=\"slide-logo\">\n",
         "        <span class=\"slide-number\">", ToString(index + 1), "/", ToString(total), "</span>\n",
         "    </div>\n\n">>

-----------------------------------------------------------------------------
(* Inputs of the parser: documents of at most MaxLines lines drawn from a  *)
(* pool with a line for every branch of the loop body.                     *)

LinePool ==
    { FenceMarker,                                  \* a fence without language
      FenceMarker \o <<"t">>,                       \* a fence with a language / trailing text
      <<"#", " ", "A">>,                            \* title header
      <<"#", "#", " ", "B">>,                       \* section header
      <<"#", "#", "#", " ", "c">>,                  \* subtitle
      <<"-", " ", "i">>,                            \* list item
      <<"k", ":", " ", "1">>,                       \* stat
      <<"!", "[", "a", "]", "(", "s", ")">>,        \* image
      <<"-", "-", "-">>,                            \* slide break
      HrMarker,                                     \* slide break
      <<"s", "l", "i", "d", "e", "s", ":", "1">>,   \* metadata line
      <<"x">>,                                      \* text
      <<>> }                                        \* blank

\* the local variables of parseMarkdown as its first lines set them
ParseStart(content) ==
    /\ lines = content
    /\ pos = 1
    /\ pc = "parse"
    /\ slides = <<>>
    /\ currentSlide = NullSlide
    /\ inCodeBlock = FALSE
    /\ codeBlockContent = <<>>
    /\ codeBlockLang = <<>>
    /\ slideHTML = <<>>
    /\ html = <<>>
    /\ runs = <<>>
    /\ renders = <<>>
    /\ NoProcess


Init == \E k \in 1..MaxLines : \E content \in [1..k -> LinePool] : ParseStart(content)

Next == ParseStep

Spec == Init /\ [][Next]_vars

-----------------------------------------------------------------------------
(* The classifier on one line: single-line documents over an alphabet that *)
(* exercises the key-value test, with and without the "http" prefix, and   *)
(* the two lines of the documentation.                                     *)

StatAlphabet == {"k", " ", "\t", ":", "1", ","}

TotalPackagesLine ==
    <<"T", "o", "t", "a", "l", " ", "p", "a", "c", "k", "a", "g", "e", "s", ":", " ",
      "9", ",", "0", "8", "0", ",", "7", "7", "4">>

PackagesLine ==
    <<"p", "a", "c", "k", "a", "g", "e", "s", ":", " ", "9", ",", "0", "8", "0", ",", "7", "7", "4">>

InitLine ==
    \/ \E prefix \in {<<>>, HttpPrefix}, k \in 0..MaxLineLen :
          \E body \in [1..k -> StatAlphabet] : ParseStart(<<prefix \o body>>)
    \/ \E line \in {TotalPackagesLine, PackagesLine} : ParseStart(<<line>>)

NextLine == StatLine \/ TextLine \/ BlankLine \/ EndOfInput

SpecLine == InitLine /\ [][NextLine]_vars

-----------------------------------------------------------------------------
(* Regeneration: parseMarkdown called again, as generateSlides does on     *)
(* every change of the source file in watch mode.                          *)

ReparsePool == { FenceMarker, <<"#", " ", "A">>, <<"x">> }

\* mutant of Reparse: inCodeBlock and codeBlockContent live outside the
\* function and keep their values from the parse before
ReparseKeepsFence ==
    /\ pc = "parsed"
    /\ Len(runs) < MaxRuns
    /\ \E k \in 1..MaxReLines : \E content \in [1..k -> ReparsePool] : lines' = content
    /\ pos' = 1
    /\ pc' = "parse"
    /\ slides' = <<>>
    /\ currentSlide' = NullSlide
    /\ UNCHANGED <<inCodeBlock, codeBlockContent, codeBlockLang, slideHTML, html, runs>>
    /\ UNCHANGED <<renders, now, fileVars, processVars, watchVars>>

\* a new call of parseMarkdown: its local variables are set anew
Reparse ==
    /\ pc = "parsed"
    /\ Len(runs) < MaxRuns
    /\ \E k \in 1..MaxReLines : \E content \in [1..k -> ReparsePool] : lines' = content
    /\ pos' = 1
    /\ pc' = "parse"
    /\ slides' = <<>>
    /\ currentSlide' = NullSlide
    /\ inCodeBlock' = FALSE
    /\ codeBlockContent' = <<>>
    /\ codeBlockLang' = <<>>
    /\ UNCHANGED <<slideHTML, html, runs, renders, now, fileVars, processVars, watchVars>>

InitReparse == \E k \in 1..MaxReLines : \E content \in [1..k -> ReparsePool] : ParseStart(content)

NextReparse ==
    \/ FenceOpen
    \/ FenceClose
    \/ CodeLine
    \/ TitleLine
    \/ TextLine
    \/ EndOfInput
    \/ Reparse

SpecReparse == InitReparse /\ [][NextReparse]_vars

-----------------------------------------------------------------------------
(* parseMarkdown on a document and on the same document without its empty  *)
(* and whitespace-only lines outside fences (SpecBlank).                   *)

MaxBlankLines == 3

BlankPool == { <<>>, <<" ">>, <<"x">>, <<"#", " ", "A">>, FenceMarker }

RECURSIVE DropBlanks(_, _)
\* the lines of ls without those that are empty after trim() and outside a
\* fence; inCode is the state of the fence before the first line of ls
DropBlanks(ls, inCode) ==
    IF ls = <<>> THEN <<>>
    ELSE IF IsFence(ls[1]) THEN <<ls[1]>> \o DropBlanks(Tail(ls), ~inCode)
    ELSE IF ~inCode /\ Trim(ls[1]) = <<>> THEN DropBlanks(Tail(ls), inCode)
    ELSE <<ls[1]>> \o DropBlanks(Tail(ls), inCode)

\* content.split('\n') has at least one element
WithoutBlanks(ls) == IF DropBlanks(ls, FALSE) = <<>> THEN << <<>> >> ELSE DropBlanks(ls, FALSE)

\* parseMarkdown is called on the document without these lines
ParseWithoutBlanks ==
    /\ pc = "parsed"
    /\ Len(runs) < MaxRuns
    /\ lines' = WithoutBlanks(lines)
    /\ pos' = 1
    /\ pc' = "parse"
    /\ slides' = <<>>
    /\ currentSlide' = NullSlide
    /\ inCodeBlock' = FALSE
    /\ codeBlockContent' = <<>>
    /\ codeBlockLang' = <<>>
    /\ UNCHANGED <<slideHTML, html, runs, renders, now, fileVars, processVars, watchVars>>

InitBlank == \E k \in 1..MaxBlankLines : \E content \in [1..k -> BlankPool] : ParseStart(content)

NextBlank ==
    \/ FenceOpen
    \/ FenceClose
    \/ CodeLine
    \/ TitleLine
    \/ TextLine
    \/ BlankLine
    \/ EndOfInput
    \/ ParseWithoutBlanks

SpecBlank == InitBlank /\ [][NextBlank]_vars

-----------------------------------------------------------------------------
(* generateHTML: one action per call of the callback of slides.map.        *)

ShellHead == "<!DOCTYPE html> ... <body>\n"
ShellScript == "    <div class=\"nav-hint\"> ... let lastModified = "
ShellTail == ";\n        setInterval( ... </html>"

\* mutant of RenderSlide: the callback takes the blocks out of the slide it
\* renders (content.shift() in place of a read)
RenderSlideConsumes ==
    /\ pc = "render"
    /\ pos <= Len(slides)
    /\ ~FragmentThrows(slides[pos])
    /\ slideHTML' = Append(slideHTML, Fragment(slides[pos], pos - 1, Len(slides)))
    /\ pos' = pos + 1
    /\ slides' = [slides EXCEPT ![pos].content = <<>>]
    /\ UNCHANGED <<lines, pc, currentSlide, inCodeBlock, codeBlockContent,
                   codeBlockLang, html, runs>>
    /\ UNCHANGED <<renders, now, fileVars, processVars, watchVars>>

RenderSlide ==
    /\ pc = "render"
    /\ pos <= Len(slides)
    /\ ~FragmentThrows(slides[pos])
    /\ slideHTML' = Append(slideHTML, Fragment(slides[pos], pos - 1, Len(slides)))
    /\ pos' = pos + 1
    /\ UNCHANGED <<lines, pc, slides, currentSlide, inCodeBlock, codeBlockContent,
                   codeBlockLang, html, runs>>
    /\ UNCHANGED <<renders, now, fileVars, processVars, watchVars>>

\* a TypeError leaves generateHTML: no document is returned
RenderThrow ==
    /\ pc = "render"
    /\ pos <= Len(slides)
    /\ FragmentThrows(slides[pos])
    /\ pc' = "threw"
    /\ UNCHANGED <<lines, pos, slides, currentSlide, inCodeBlock, codeBlockContent,
                   codeBlockLang, slideHTML, html, runs>>
    /\ UNCHANGED <<renders, now, fileVars, processVars, watchVars>>

\* .join('') and the document template around the fragments
RenderDone ==
    /\ pc = "render"
    /\ pos > Len(slides)
    /\ html' = <<ShellHead>> \o Flatten(slideHTML) \o <<ShellScript, ToString(now), ShellTail>>
    /\ pc' = "rendered"
    /\ renders' = Append(renders, slideHTML)
    /\ UNCHANGED <<lines, pos, slides, currentSlide, inCodeBlock, codeBlockContent,
                   codeBlockLang, slideHTML, runs>>
    /\ UNCHANGED <<now, fileVars, processVars, watchVars>>

RenderStart(ss) ==
    /\ lines = <<>>
    /\ pos = 1
    /\ pc = "render"
    /\ slides = ss
    /\ currentSlide = NullSlide
    /\ inCodeBlock = FALSE
    /\ codeBlockContent = <<>>
    /\ codeBlockLang = <<>>
    /\ slideHTML = <<>>
    /\ html = <<>>
    /\ runs = <<>>
    /\ renders = <<>>
    /\ NoProcess

-----------------------------------------------------------------------------
(* Inputs of the renderer.                                                 *)

SlideOf(kind, title, content) ==
    [type |-> kind, hasTitle |-> kind # "content", title |-> title, content |-> content, at |-> 0]

ListItem(text) == [EmptyBlock EXCEPT !.type = "list-item", !.text = text]
Code(language, text) == [EmptyBlock EXCEPT !.type = "code", !.language = language, !.text = text]
Stat(key, value) == [EmptyBlock EXCEPT !.type = "stat", !.key = key, !.value = value]
TextBlock(text) == [EmptyBlock EXCEPT !.type = "text", !.text = text]
SubtitleBlock(text) == [EmptyBlock EXCEPT !.type = "subtitle", !.text = text]
ImageBlock(alt, src) == [EmptyBlock EXCEPT !.type = "image", !.alt = alt, !.src = src]

\* list items: with an em-dash and a digit, with neither, with an em-dash only
ItemTexts == { <<"a", " ", EmDash, " ", "1">>, <<"b">>, <<"c", " ", EmDash, " ", "d">> }

RankedItem == ListItem(<<"a", " ", EmDash, " ", "1">>)

\* a slide of six ranked items, then the same slide with a seventh
ThresholdSlides ==
    { << SlideOf("section", <<"B">>, [k \in 1..6 |-> RankedItem]),
         SlideOf("section", <<"B">>, [k \in 1..7 |-> RankedItem]) >> }

BlockPool ==
    { SubtitleBlock(<<"s">>), SubtitleBlock(<<"u">>),
      Stat(<<"k">>, <<"1">>), Stat(<<"n">>, <<"2", " ", "(", "5", "%", ")">>),
      ListItem(<<"i">>), ListItem(<<"j">>),
      TextBlock(<<"x">>), TextBlock(<<"y">>),
      Code(<<>>, <<"c">>), Code(TerminalLang, <<"$", "d">>),
      ImageBlock(<<"a">>, <<"p">>), ImageBlock(<<"b">>, <<"q">>) }

CodeAlphabet == {"&", "<", ">", "\"", "'", "$", "\n", "a"}

ScriptText == <<"<", "s", "c", "r", "i", "p", "t", ">">>

\* a stat value and a ranked item name on which the callback throws
ThrowingSlides ==
    { <<SlideOf("content", <<>>, <<Stat(<<"k">>, <<"1", "(", "a", "%", ")">>)>>)>>,
      <<SlideOf("content", <<>>, <<ListItem(<<"[", "]", "(", "u", ")", EmDash, "1">>)>>)>> }

\* a ranked item with a second em-dash, alone and after a ranked item
TwoDashItem == ListItem(<<"a", " ", EmDash, " ", "1", " ", EmDash, " ", "2">>)

TwoDashSlides ==
    { <<SlideOf("content", <<>>, <<TwoDashItem>>)>>,
      <<SlideOf("content", <<>>, <<RankedItem, TwoDashItem>>)>> }

\* one slide of list items only
InitListSlide ==
    \E k \in 1..MaxItems : \E ts \in [1..k -> ItemTexts] :
        RenderStart(<<SlideOf("content", <<>>, [i \in 1..k |-> ListItem(ts[i])])>>)

\* one slide, with or without title, of blocks of all types in any order
InitMixedSlide ==
    \E kind \in {"content", "title"}, k \in 1..MaxBlocks : \E content \in [1..k -> BlockPool] :
        RenderStart(<<SlideOf(kind, IF kind = "content" THEN <<>> ELSE <<"A">>, content)>>)

\* one slide of one code block
InitCodeSlide ==
    \/ \E language \in {<<>>, TerminalLang}, k \in 0..MaxCodeLen : \E text \in [1..k -> CodeAlphabet] :
          RenderStart(<<SlideOf("content", <<>>, <<Code(language, text)>>)>>)
    \/ \E language \in {<<>>, TerminalLang} :
          RenderStart(<<SlideOf("content", <<>>, <<Code(language, ScriptText)>>)>>)

InitRender ==
    \/ InitListSlide
    \/ InitMixedSlide
    \/ InitCodeSlide
    \/ \E ss \in ThresholdSlides \cup ThrowingSlides \cup TwoDashSlides : RenderStart(ss)

NextRender == RenderSlide \/ RenderThrow \/ RenderDone

SpecRender == InitRender /\ [][NextRender]_vars

-----------------------------------------------------------------------------
(* parseMarkdown followed by generateHTML, as generateSlides calls them    *)
(* (lines 964-965), on a document of eight lines and on every document     *)
(* made of some of its lines.                                              *)

EndToEndLines ==
    << <<"#", " ", "T", "i", "t", "l", "e">>,
       <<"I", "n", "t", "r", "o", " ", "t", "e", "x", "t">>,
       <<>>,
       <<"-", "-", "-">>,
       <<>>,
       <<"#", "#", " ", "S", "t", "a", "t", "s">>,
       <<"p", "a", "c", "k", "a", "g", "e", "s", ":", " ", "1", "0", "0">>,
       <<"u", "s", "e", "r", "s", ":", " ", "5", "0">> >>

\* the lines of doc at the indices of keep, in order
Pick(doc, keep) ==
    LET F[i \in 0..Len(doc)] ==
            IF i = 0 THEN <<>>
            ELSE IF i \in keep THEN Append(F[i - 1], doc[i]) ELSE F[i - 1]
    IN F[Len(doc)]

\* mutant of GenerateHTML: generateHTML is given the slides without the
\* first one
GenerateHTMLSkipsFirst ==
    /\ pc = "parsed"
    /\ pc' = "render"
    /\ pos' = 1
    /\ slides' = IF Len(slides) > 0 THEN Tail(slides) ELSE slides
    /\ slideHTML' = <<>>
    /\ html' = <<>>
    /\ UNCHANGED <<lines, currentSlide, inCodeBlock, codeBlockContent,
                   codeBlockLang, runs, renders>>
    /\ UNCHANGED <<now, fileVars, processVars, watchVars>>

\* const html = generateHTML(slides): the call, on what parseMarkdown returned
GenerateHTML ==
    /\ pc = "parsed"
    /\ pc' = "render"
    /\ pos' = 1
    /\ slideHTML' = <<>>
    /\ html' = <<>>
    /\ UNCHANGED <<lines, slides, currentSlide, inCodeBlock, codeBlockContent,
                   codeBlockLang, runs, renders>>
    /\ UNCHANGED <<now, fileVars, processVars, watchVars>>

InitPipeline ==
    \E keep \in SUBSET (1..Len(EndToEndLines)) \ {{}} : ParseStart(Pick(EndToEndLines, keep))

NextPipeline ==
    \/ BreakLine
    \/ TitleLine
    \/ SectionLine
    \/ StatLine
    \/ TextLine
    \/ BlankLine
    \/ EndOfInput
    \/ GenerateHTML
    \/ RenderSlide
    \/ RenderDone

SpecPipeline == InitPipeline /\ [][NextPipeline]_vars

-----------------------------------------------------------------------------
(* parseMarkdown, then generateHTML, on documents of headers with and      *)
(* without text, fences with and without the terminal language, and text   *)
(* (SpecDeck).                                                             *)

MaxDeckLines == 4

DeckPool ==
    { <<"#", " ", "A">>,                \* title header
      <<"#", " ">>,                     \* title header without text
      <<"#", "#", " ", "B">>,           \* section header
      <<"#", "#", " ">>,                \* section header without text
      <<"x">>,                          \* text, or a line of code
      FenceMarker,                      \* fence without language
      FenceMarker \o TerminalLang }     \* fence with the language terminal

InitDeck == \E k \in 1..MaxDeckLines : \E content \in [1..k -> DeckPool] : ParseStart(content)

NextDeck ==
    \/ FenceOpen
    \/ FenceClose
    \/ CodeLine
    \/ TitleLine
    \/ SectionLine
    \/ TextLine
    \/ EndOfInput
    \/ GenerateHTML
    \/ RenderSlide
    \/ RenderDone

SpecDeck == InitDeck /\ [][NextDeck]_vars

-----------------------------------------------------------------------------
(* generateSlides and the two branches of the main script: the single-shot *)
(* run and watch mode.  One process is modelled step by step; the process  *)
(* it spawns on a change of the script is modelled by what it does to port *)
(* 3456.  JavaScript runs one handler at a time: the handlers of the       *)
(* watchers and of the server start in the state "idle" only.  The clock   *)
(* and text.md change at any time.                                         *)

\* what text.md may hold: a text line, a stat line whose value makes the
\* stat callback throw, or nothing that can be read
TextFile == [readable |-> TRUE, content |-> << <<"x">> >>]
ThrowingFile == [readable |-> TRUE, content |-> << <<"k", ":", " ", "1", "(", "a", "%", ")">> >>]
FilePool == {TextFile, ThrowingFile, NoFile}

\* an index.html left by an earlier run
EarlierDocument == <<"<!DOCTYPE html> ... </html>">>

\* const markdown = fs.readFileSync(MARKDOWN_FILE, 'utf8'), and the entry of
\* parseMarkdown(markdown)
ReadSource ==
    /\ pc = "call"
    /\ srcFile.readable
    /\ lines' = srcFile.content
    /\ pos' = 1
    /\ pc' = "parse"
    /\ slides' = <<>>
    /\ currentSlide' = NullSlide
    /\ inCodeBlock' = FALSE
    /\ codeBlockContent' = <<>>
    /\ codeBlockLang' = <<>>
    /\ slideHTML' = <<>>
    /\ html' = <<>>
    /\ UNCHANGED <<runs, renders, now, fileVars, processVars, watchVars>>

\* mutant of ReadFail: the output file is opened for writing before the
\* source is read
ReadFailTruncates ==
    /\ pc = "call"
    /\ ~srcFile.readable
    /\ pc' = "threw"
    /\ lines' = <<>>
    /\ slides' = <<>>
    /\ slideHTML' = <<>>
    /\ html' = <<>>
    /\ outFile' = <<>>
    /\ UNCHANGED <<pos, currentSlide, inCodeBlock, codeBlockContent, codeBlockLang>>
    /\ UNCHANGED <<runs, renders, now, srcFile, outBefore, writtenAt, processVars, watchVars>>

\* fs.readFileSync throws: markdown, slides and html are never assigned
ReadFail ==
    /\ pc = "call"
    /\ ~srcFile.readable
    /\ pc' = "threw"
    /\ lines' = <<>>
    /\ slides' = <<>>
    /\ slideHTML' = <<>>
    /\ html' = <<>>
    /\ UNCHANGED <<pos, currentSlide, inCodeBlock, codeBlockContent, codeBlockLang>>
    /\ UNCHANGED <<runs, renders, now, fileVars, processVars, watchVars>>

\* the local variables of parseMarkdown and generateHTML and their histories
pipelineVars == <<lines, pos, slides, currentSlide, inCodeBlock, codeBlockContent,
                  codeBlockLang, slideHTML, html, runs, renders>>

GeneratedMessage(n) == <<"Generated ", ToString(n), " slides in index.html">>
ErrorMessage == <<"Error generating slides:">>
ChangedMessage == <<"File changed, regenerating slides...">>
WatchingMessage == <<"Watching text.md for changes...">>
RestartingMessage == <<"Script changed, restarting...">>

\* fs.writeFileSync(OUTPUT_FILE, html); console.log(...); return true
WriteOutput ==
    /\ pc = "rendered"
    /\ outFile' = html
    /\ writtenAt' = now
    /\ console' = Append(console, GeneratedMessage(Len(slides)))
    /\ retval' = "true"
    /\ pc' = "returned"
    /\ UNCHANGED <<pipelineVars, now, srcFile, outBefore, caller, exitCode, watchVars>>

\* fs.writeFileSync throws: the file could not be opened, or it was opened,
\* which empties it, and the data could not be written
WriteFail ==
    /\ pc = "rendered"
    /\ outFile' \in {outFile, <<>>}
    /\ pc' = "threw"
    /\ UNCHANGED <<pipelineVars, now, srcFile, outBefore, writtenAt, processVars, watchVars>>

\* mutant of CatchError: the catch block ends the process
CatchErrorExits ==
    /\ pc = "threw"
    /\ console' = Append(console, ErrorMessage)
    /\ retval' = "false"
    /\ pc' = "exited"
    /\ exitCode' = 1
    /\ listening' = FALSE
    /\ UNCHANGED <<pipelineVars, now, fileVars, caller, lastModified, polledAt,
                   statChanged, responses, child>>

\* catch (error) { console.error('Error generating slides:', error); return false; }
CatchError ==
    /\ pc = "threw"
    /\ console' = Append(console, ErrorMessage)
    /\ retval' = "false"
    /\ pc' = "returned"
    /\ UNCHANGED <<pipelineVars, now, fileVars, caller, exitCode, watchVars>>

\* else { generateSlides(); }: the result is dropped, the script ends and
\* node exits with status 0
SingleShotEnd ==
    /\ pc = "returned"
    /\ caller = "single"
    /\ pc' = "exited"
    /\ exitCode' = 0
    /\ UNCHANGED <<pipelineVars, now, fileVars, caller, retval, console, watchVars>>

\* watch mode after the first generateSlides(), whose result is dropped:
\* let lastModified = Date.now(), the two watchers and server.listen(3456)
WatchSetup ==
    /\ pc = "returned"
    /\ caller = "start"
    /\ console' = Append(console, WatchingMessage)
    /\ lastModified' = now
    /\ polledAt' = now
    /\ statChanged' = FALSE
    /\ listening' = TRUE
    /\ pc' = "idle"
    /\ UNCHANGED <<pipelineVars, now, fileVars, caller, retval, exitCode, responses, child>>

\* the callback of fs.watchFile(MARKDOWN_FILE, { interval: 500 }) up to the
\* call of generateSlides: the watcher runs at most once per interval, and
\* curr.mtime !== prev.mtime compares two objects, which never are the same
WatchCallback ==
    /\ pc = "idle"
    /\ statChanged
    /\ now > polledAt
    /\ polledAt' = now
    /\ statChanged' = FALSE
    /\ console' = Append(console, ChangedMessage)
    /\ caller' = "watch"
    /\ outBefore' = outFile
    /\ pc' = "call"
    /\ UNCHANGED <<pipelineVars, now, srcFile, outFile, writtenAt, retval, exitCode,
                   lastModified, listening, responses, child>>

\* if (generateSlides()) { lastModified = Date.now(); } and the return of the
\* callback to the event loop
WatchCallbackEnd ==
    /\ pc = "returned"
    /\ caller = "watch"
    /\ lastModified' = IF retval = "true" THEN now ELSE lastModified
    /\ pc' = "idle"
    /\ UNCHANGED <<pipelineVars, now, fileVars, processVars, listening, polledAt,
                   statChanged, responses, child>>

\* the request handler of the server, pathname /check-update: the response
\* carries lastModified; written records the clock at the last completed
\* write when the response was sent
CheckUpdate ==
    /\ pc = "idle"
    /\ listening
    /\ Len(responses) < MaxResponses
    /\ responses' = Append(responses, [modified |-> lastModified, written |-> writtenAt])
    /\ UNCHANGED <<pipelineVars, pc, now, fileVars, processVars, lastModified, listening,
                   polledAt, statChanged, child>>

\* the request handler of the server, any other pathname: 404, and no
\* variable of the process is read or written
NotFound ==
    /\ pc = "idle"
    /\ listening
    /\ UNCHANGED vars

\* mutant of ScriptChanged: the new process is spawned while the server is
\* still open
ScriptChangedKeepsServer ==
    /\ pc = "idle"
    /\ console' = Append(console, RestartingMessage)
    /\ child' = "booting"
    /\ pc' = "exiting"
    /\ UNCHANGED <<pipelineVars, now, fileVars, caller, retval, exitCode, lastModified,
                   listening, polledAt, statChanged, responses>>

\* the callback of fs.watchFile(scriptPath) up to spawn(...): the server is
\* closed, then the new process is started
ScriptChanged ==
    /\ pc = "idle"
    /\ console' = Append(console, RestartingMessage)
    /\ listening' = FALSE
    /\ child' = "booting"
    /\ pc' = "exiting"
    /\ UNCHANGED <<pipelineVars, now, fileVars, caller, retval, exitCode, lastModified,
                   polledAt, statChanged, responses>>

\* child.unref(); process.exit(): the process ends, which frees its sockets
ProcessExit ==
    /\ pc = "exiting"
    /\ pc' = "exited"
    /\ exitCode' = 0
    /\ listening' = FALSE
    /\ UNCHANGED <<pipelineVars, now, fileVars, caller, retval, console, lastModified,
                   polledAt, statChanged, responses, child>>

\* server.listen(3456) of the spawned process, which runs beside the process
\* that spawned it: the port is free or it is not (EADDRINUSE)
ChildListen ==
    /\ child = "booting"
    /\ child' = IF listening THEN "conflict" ELSE "listening"
    /\ UNCHANGED <<pipelineVars, pc, now, fileVars, processVars, lastModified, listening,
                   polledAt, statChanged, responses>>

\* somebody saves, touches or removes text.md.  A change made while
\* generateSlides runs is seen by the process as one made right after it
\* returns, so changes are taken before the read and between two handlers
EditSource ==
    /\ pc \in {"call", "idle"}
    /\ \E file \in FilePool : srcFile' = file
    /\ statChanged' = TRUE
    /\ UNCHANGED <<pipelineVars, pc, now, outFile, outBefore, writtenAt, processVars,
                   lastModified, listening, polledAt, responses, child>>

\* a millisecond passes
Tick ==
    /\ pc # "exited"
    /\ now < MaxClock
    /\ now' = now + 1
    /\ UNCHANGED <<pipelineVars, pc, fileVars, processVars, watchVars>>

\* node generate-slides.js [--watch]: the main script reaches its call of
\* generateSlides
InitRun ==
    \E file \in FilePool, old \in {<<>>, EarlierDocument}, c \in {"single", "start"} :
        /\ lines = <<>>
        /\ pos = 1
        /\ pc = "call"
        /\ slides = <<>>
        /\ currentSlide = NullSlide
        /\ inCodeBlock = FALSE
        /\ codeBlockContent = <<>>
        /\ codeBlockLang = <<>>
        /\ slideHTML = <<>>
        /\ html = <<>>
        /\ runs = <<>>
        /\ renders = <<>>
        /\ now = 0
        /\ srcFile = file
        /\ outFile = old
        /\ outBefore = old
        /\ writtenAt = -1
        /\ caller = c
        /\ retval = "none"
        /\ console = <<>>
        /\ exitCode = 0
        /\ lastModified = 0
        /\ listening = FALSE
        /\ polledAt = 0
        /\ statChanged = FALSE
        /\ responses = <<>>
        /\ child = "none"

NextRun ==
    \/ ReadSource
    \/ ReadFail
    \/ StatLine
    \/ TextLine
    \/ EndOfInput
    \/ GenerateHTML
    \/ RenderSlide
    \/ RenderThrow
    \/ RenderDone
    \/ WriteOutput
    \/ WriteFail
    \/ CatchError
    \/ SingleShotEnd
    \/ WatchSetup
    \/ WatchCallback
    \/ WatchCallbackEnd
    \/ CheckUpdate
    \/ NotFound
    \/ ScriptChanged
    \/ ProcessExit
    \/ ChildListen
    \/ EditSource
    \/ Tick

SpecRun == InitRun /\ [][NextRun]_vars

-----------------------------------------------------------------------------
(* generateHTML called again on the slides it was given before: decks of   *)
(* up to MaxSlides slides of one block each.                               *)

\* a new call of generateHTML(slides) with the array of the call before
Rerender ==
    /\ pc = "rendered"
    /\ Len(renders) < MaxRenders
    /\ pc' = "render"
    /\ pos' = 1
    /\ slideHTML' = <<>>
    /\ html' = <<>>
    /\ UNCHANGED <<lines, slides, currentSlide, inCodeBlock, codeBlockContent,
                   codeBlockLang, runs, renders>>
    /\ UNCHANGED <<now, fileVars, processVars, watchVars>>

InitRerender ==
    \/ \E k \in 1..MaxSlides : \E bs \in [1..k -> BlockPool] :
           RenderStart([i \in 1..k |-> SlideOf(IF i = 1 THEN "title" ELSE "content",
                                               IF i = 1 THEN <<"A">> ELSE <<>>,
                                               <<bs[i]>>)])
    \/ \E ss \in ThrowingSlides : RenderStart(ss)

NextRerender == RenderSlide \/ RenderThrow \/ RenderDone \/ Rerender

SpecRerender == InitRerender /\ [][NextRerender]_vars

-----------------------------------------------------------------------------
(* Properties of the parser.  The vocabulary of the claims, computed from  *)
(* the input lines alone.                                                  *)

\* a fence is open when line i is read: an odd number of fence lines precede it
FenceOpenBefore(ls, i) == Cardinality({j \in 1..(i - 1) : IsFence(ls[j])}) % 2 = 1

\* line i is a boundary event: a header or a slide break outside a fence
BoundaryAt(ls, i) ==
    ~FenceOpenBefore(ls, i) /\ LineKind(ls[i], FALSE) \in {"break", "title", "section"}

HeaderAt(ls, i) ==
    ~FenceOpenBefore(ls, i) /\ LineKind(ls[i], FALSE) \in {"title", "section"}

\* line i gives a content block: a content line outside a fence, or the line
\* that closes a fence
ContentAt(ls, i) ==
    IF FenceOpenBefore(ls, i) THEN IsFence(ls[i])
    ELSE LineKind(ls[i], FALSE) \in {"subtitle", "list-item", "stat", "image", "text"}

\* a content block follows position b (0: the start of the input) before the
\* next boundary
FollowedByContent(ls, b) ==
    \E j \in (b + 1)..Len(ls) :
        ContentAt(ls, j) /\ \A m \in (b + 1)..j : ~BoundaryAt(ls, m)

\* the blocks of the slides pushed so far and of the open slide
AllSlides == IF currentSlide.type = "null" THEN slides ELSE Append(slides, currentSlide)

\* C1: every returned slide has at least one content block, and a "# " or
\* "## " header that gets no content block before the next boundary or the end
\* of the input gives no slide: no returned slide stems from its line.
C1_Retention ==
    /\ \A k \in 1..Len(slides) : Len(slides[k].content) > 0
    /\ pc = "parsed" =>
          \A h \in 1..Len(lines) :
              (HeaderAt(lines, h) /\ ~FollowedByContent(lines, h))
                  => \A k \in 1..Len(slides) : slides[k].at # h

\* a finished parse that dropped an empty header and kept another slide
C1_Witness ==
    /\ pc = "parsed"
    /\ Len(slides) > 0
    /\ \E h \in 1..Len(lines) : HeaderAt(lines, h) /\ ~FollowedByContent(lines, h)

\* C2 as stated: the number of returned slides is the number of boundary lines
\* (headers and breaks outside a fence) followed by a content block before the
\* next boundary.
C2_AsStated ==
    pc = "parsed" =>
        Len(slides) = Cardinality({b \in 1..Len(lines) :
                                      BoundaryAt(lines, b) /\ FollowedByContent(lines, b)})

\* C2 amended: the start of the input counts as a boundary event too (content
\* before the first boundary opens a slide of its own).
C2_SlideCount ==
    pc = "parsed" =>
        Len(slides) = Cardinality({b \in 0..Len(lines) :
                                      (b = 0 \/ BoundaryAt(lines, b)) /\ FollowedByContent(lines, b)})

\* a finished parse with a slide from leading content and a slide after a boundary
C2_Witness ==
    /\ pc = "parsed"
    /\ FollowedByContent(lines, 0)
    /\ \E b \in 1..Len(lines) : BoundaryAt(lines, b) /\ FollowedByContent(lines, b)
    /\ Len(slides) = 2

\* C3: no subtitle, list-item or stat block stems from a line read while a
\* fence was open; such a line only ever gives the code block of its fence.
C3_FenceState ==
    \A k \in 1..Len(AllSlides) :
        \A b \in 1..Len(AllSlides[k].content) :
            LET block == AllSlides[k].content[b]
            IN FenceOpenBefore(lines, block.at) => block.type = "code"

\* a finished parse whose fence held a line that looks like a subtitle, a list
\* item or a stat, and that closed the fence into a code block
C3_Witness ==
    /\ pc = "parsed"
    /\ \E i \in 1..Len(lines) :
          /\ FenceOpenBefore(lines, i)
          /\ LineKind(lines[i], FALSE) \in {"subtitle", "list-item", "stat"}
          /\ \E k \in 1..Len(slides) : \E b \in 1..Len(slides[k].content) :
                slides[k].content[b].type = "code" /\ slides[k].content[b].at > i

-----------------------------------------------------------------------------
(* Properties of the classification of one line (SpecLine).                *)

\* the blocks of all returned slides, in order
RECURSIVE BlocksOf(_)
BlocksOf(ss) == IF ss = <<>> THEN <<>> ELSE ss[1].content \o BlocksOf(Tail(ss))

\* the parts of a line before and after its first colon, trimmed
BeforeColon(line) == Trim(SubSeq(line, 1, IndexOfChar(line, ":") - 1))
AfterColon(line) == Trim(SubSeq(line, IndexOfChar(line, ":") + 1, Len(line)))

\* the condition of C4, word for word
StatAsStated(line) ==
    /\ IncludesChar(line, ":")
    /\ ~StartsWith(line, HttpPrefix)
    /\ BeforeColon(line) # <<>>
    /\ \A k \in 1..Len(BeforeColon(line)) : ~IsSpace(BeforeColon(line)[k])
    /\ AfterColon(line) # <<>>
    /\ \E k \in 1..Len(AfterColon(line)) : IsDigit(AfterColon(line)[k])

\* C4 as stated: a line that no earlier rule matches gives a stat block if and
\* only if it has a colon, does not start with "http", the part before the
\* first colon is non-empty without inner whitespace and the part after it is
\* non-empty with at least one digit; key and value are the two parts, trimmed.
C4_AsStated ==
    (pc = "parsed" /\ Len(lines) = 1) =>
        LET blocks == BlocksOf(slides)
            isStat == \E b \in 1..Len(blocks) : blocks[b].type = "stat"
        IN /\ isStat <=> StatAsStated(lines[1])
           /\ isStat => /\ blocks[1].key = BeforeColon(lines[1])
                        /\ blocks[1].value = AfterColon(lines[1])

-----------------------------------------------------------------------------
(* Properties of the renderer (SpecRender).                                *)

Has(frag, tok) == \E k \in 1..Len(frag) : frag[k] = tok

\* the data between every opening token and the closing token after it
RECURSIVE ElementsFrom(_, _, _, _)
ElementsFrom(frag, k, open, close) ==
    IF k > Len(frag) THEN <<>>
    ELSE IF frag[k] = open
    THEN LET e == FirstIndexFrom(frag, close, k + 1)
         IN <<SubSeq(frag, k + 1, e - 1)>> \o ElementsFrom(frag, e + 1, open, close)
    ELSE ElementsFrom(frag, k + 1, open, close)

Elements(frag, open, close) == ElementsFrom(frag, 1, open, close)

\* the character an entity of five reserved characters stands for
EntityChar(entity) ==
    CASE entity = <<"&", "a", "m", "p", ";">> -> "&"
      [] entity = <<"&", "l", "t", ";">> -> "<"
      [] entity = <<"&", "g", "t", ";">> -> ">"
      [] entity = <<"&", "q", "u", "o", "t", ";">> -> "\""
      [] entity = <<"&", "#", "0", "3", "9", ";">> -> "'"
      [] OTHER -> "?"

\* the text a browser shows for escaped text: every entity decoded
RECURSIVE Unescape(_, _)
Unescape(s, k) ==
    IF k > Len(s) THEN <<>>
    ELSE IF s[k] = "&" /\ FirstIndexFrom(s, ";", k) # 0
    THEN LET e == FirstIndexFrom(s, ";", k)
         IN <<EntityChar(SubSeq(s, k, e))>> \o Unescape(s, e + 1)
    ELSE <<s[k]>> \o Unescape(s, k + 1)

\* the source text of the content of a code element: the prompt spans
\* removed, the entities decoded
CodeSource(region) ==
    Unescape(SelectSeq(region, LAMBDA tok : tok \notin {PromptOpen, PromptClose}), 1)

\* a list item that contains an em-dash together with at least one digit
RankedAsStated(item) ==
    /\ \E k \in 1..Len(item.text) : item.text[k] = EmDash
    /\ \E k \in 1..Len(item.text) : IsDigit(item.text[k])

AllRanked(items) == \A i \in 1..Len(items) : RankedAsStated(items[i])

\* C6 as stated: the list items of a slide are rendered as the ranked grid if
\* and only if all of them contain an em-dash together with a digit and there
\* are at most 6 of them; otherwise as a plain bulleted list.
C6_AsStated ==
    \A k \in 1..Len(slideHTML) :
        LET items == OfType(slides[k].content, "list-item")
            grid == AllRanked(items) /\ Len(items) <= 6
        IN Len(items) > 0 =>
              /\ Has(slideHTML[k], TopListOpen) <=> grid
              /\ Has(slideHTML[k], UlOpen) <=> ~grid

\* C7: six list items, each with an em-dash and a digit, are rendered as the
\* grid; seven such items are rendered as a plain bulleted list.
C7_Threshold ==
    \A k \in 1..Len(slideHTML) :
        LET items == OfType(slides[k].content, "list-item")
        IN AllRanked(items) =>
              /\ Len(items) = 6 => Has(slideHTML[k], TopListOpen) /\ ~Has(slideHTML[k], UlOpen)
              /\ Len(items) = 7 => Has(slideHTML[k], UlOpen) /\ ~Has(slideHTML[k], TopListOpen)

\* a slide of six ranked items and the same slide with a seventh, both rendered
C7_Witness ==
    /\ pc = "rendered"
    /\ Len(slides) = 2
    /\ Len(slides[1].content) = 6
    /\ slides[2].content = Append(slides[1].content, RankedItem)
    /\ AllRanked(slides[2].content)
    /\ \A i \in 1..7 : slides[2].content[i].type = "list-item"

\* the place of a template token in the fixed order of the groups (0: none)
GroupRank(tok) ==
    CASE tok = H3Open -> 1
      [] tok = StatCardOpen -> 2
      [] tok \in {TopItemOpen, LiOpen} -> 3
      [] tok = POpen -> 4
      [] tok = PreOpen -> 5
      [] tok = ImgOpen -> 6
      [] OTHER -> 0

\* the main value of a stat card: the value up to its "(" when it carries a
\* parenthesized percentage
MainValueOf(stat) ==
    IF IncludesChar(stat.value, "(") /\ Includes(stat.value, <<"%", ")">>)
    THEN Trim(SubSeq(stat.value, 1, IndexOfChar(stat.value, "(") - 1))
    ELSE stat.value

\* C8: in every fragment the blocks come grouped by category in the order
\* subtitles, stats, list, texts, code blocks, images, whatever the order of
\* the blocks in the slide, and within a category in their insertion order.
C8_RenderOrder ==
    \A k \in 1..Len(slideHTML) :
        LET frag == slideHTML[k]
            content == slides[k].content
            openers == SelectSeq(frag, LAMBDA tok : GroupRank(tok) > 0)
            Texts(type) == LET items == OfType(content, type)
                           IN [i \in 1..Len(items) |-> items[i].text]
            stats == OfType(content, "stat")
            codes == OfType(content, "code")
            images == OfType(content, "image")
        IN /\ \A i, j \in 1..Len(openers) :
                 i < j => GroupRank(openers[i]) <= GroupRank(openers[j])
           /\ Elements(frag, H3Open, H3Close) = Texts("subtitle")
           /\ Elements(frag, BigNumberOpen, SpanCloseLine) = [i \in 1..Len(stats) |-> MainValueOf(stats[i])]
           /\ Has(frag, UlOpen) =>
                 Len(Elements(frag, LiOpen, LiClose)) = Len(OfType(content, "list-item"))
           /\ (Has(frag, UlOpen) /\ \A i \in 1..Len(content) :
                                       ~IncludesChar(content[i].text, EmDash)
                                       /\ ~IncludesChar(content[i].text, "["))
                 => Elements(frag, LiOpen, LiClose) = Texts("list-item")
           /\ Elements(frag, POpen, PClose) = Texts("text")
           /\ LET regions == Elements(frag, CodeOpen, CodeClose)
              IN [i \in 1..Len(regions) |-> CodeSource(regions[i])] = [i \in 1..Len(codes) |-> codes[i].text]
           /\ Elements(frag, ImgOpen, ImgAlt) = [i \in 1..Len(images) |-> images[i].src]

\* a rendered slide whose blocks were parsed against the order of the groups,
\* with two different blocks of one category around a block of another
C8_Witness ==
    /\ pc = "rendered"
    /\ Len(slides) = 1
    /\ Len(slides[1].content) = 3
    /\ slides[1].content[1].type = "text"
    /\ slides[1].content[2].type = "subtitle"
    /\ slides[1].content[3].type = "text"
    /\ slides[1].content[1] # slides[1].content[3]

\* C9: the text of a code block is embedded with the five reserved characters
\* replaced by their entities: the content of its code element holds no raw
\* "<", ">", double or single quote, every "&" in it starts one of the five
\* entities, and decoding it gives back the text.  In a terminal block the
\* lines wrapped in the prompt span are exactly the lines of the text that
\* begin with "$", the span being put around the escaped line; no other block
\* gets a span.
C9_Escaping ==
    \A k \in 1..Len(slideHTML) :
        LET codes == OfType(slides[k].content, "code")
            regions == Elements(slideHTML[k], CodeOpen, CodeClose)
        IN /\ Len(regions) = Len(codes)
           /\ \A j \in 1..Len(regions) :
                 LET region == regions[j]
                     outLines == SplitOn(region, "\n")
                     inLines == SplitOn(codes[j].text, "\n")
                     Wrapped(line) == /\ Len(line) >= 2
                                      /\ line[1] = PromptOpen
                                      /\ line[Len(line)] = PromptClose
                                      /\ \A t \in 2..(Len(line) - 1) : line[t] \notin {PromptOpen, PromptClose}
                     Bare(line) == \A t \in 1..Len(line) : line[t] \notin {PromptOpen, PromptClose}
                 IN /\ \A t \in 1..Len(region) : region[t] \notin {"<", ">", "\"", "'"}
                    /\ \A t \in 1..Len(region) :
                          region[t] = "&" =>
                              /\ FirstIndexFrom(region, ";", t) # 0
                              /\ EntityChar(SubSeq(region, t, FirstIndexFrom(region, ";", t))) # "?"
                    /\ CodeSource(region) = codes[j].text
                    /\ Len(outLines) = Len(inLines)
                    /\ \A l \in 1..Len(outLines) :
                          IF codes[j].language = TerminalLang /\ StartsWith(inLines[l], <<"$">>)
                          THEN Wrapped(outLines[l])
                          ELSE Bare(outLines[l])

\* a rendered terminal block with a reserved character, a line that begins
\* with "$" and a line that does not
C9_Witness ==
    /\ pc = "rendered"
    /\ Len(slides) = 1
    /\ Len(slides[1].content) = 1
    /\ slides[1].content[1].type = "code"
    /\ slides[1].content[1].language = TerminalLang
    /\ slides[1].content[1].text = <<"$", "<", "\n">>

-----------------------------------------------------------------------------
(* Properties of repeated parsing (SpecReparse).                           *)

\* C10: two parses of the same input return the same slide sequence, whatever
\* was parsed in between and whatever state the earlier parse ended in.
C10_Deterministic ==
    \A i, j \in 1..Len(runs) :
        runs[i].input = runs[j].input => runs[i].result = runs[j].result

\* the same input parsed twice, the first parse having ended inside an open
\* fence and with an open slide
C10_Witness ==
    /\ Len(runs) = 2
    /\ runs[1].input = runs[2].input
    /\ FenceOpenBefore(runs[1].input, Len(runs[1].input) + 1)
    /\ Len(runs[2].result) = 1

-----------------------------------------------------------------------------
(* Properties of the fences (Spec).                                        *)

\* the for loop is about to read a line inside an open fence that would be a
\* slide break or a header outside
AtBoundaryInFence ==
    /\ pc = "parse"
    /\ pos <= Len(lines)
    /\ inCodeBlock
    /\ ~IsFence(lines[pos])
    /\ LineKind(lines[pos], FALSE) \in {"break", "title", "section"}

\* the fence that line j closes was opened by the nearest fence line before
OpenerOf(ls, j) == CHOOSE o \in 1..(j - 1) : IsFence(ls[o]) /\ \A m \in (o + 1)..(j - 1) : ~IsFence(ls[m])

ClosesFence(ls, j) == IsFence(ls[j]) /\ FenceOpenBefore(ls, j)

\* the slides built so far: the returned ones once the parse has ended
SlidesSoFar == IF pc = "parsed" THEN slides ELSE AllSlides

\* C19: a line inside an open fence that looks like a slide break or a header
\* leaves slides and currentSlide as they are and is collected, and the block
\* of the fence, once closed, holds it in its text.
C19_BoundaryInFence ==
    /\ [][AtBoundaryInFence =>
            /\ slides' = slides
            /\ currentSlide' = currentSlide
            /\ inCodeBlock'
            /\ codeBlockContent' = Append(codeBlockContent, lines[pos])]_vars
    /\ [](pc \in {"parse", "parsed"} =>
            \A i \in 1..Len(lines) :
                (/\ FenceOpenBefore(lines, i)
                 /\ ~IsFence(lines[i])
                 /\ LineKind(lines[i], FALSE) \in {"break", "title", "section"}) =>
                    /\ \A k \in 1..Len(AllSlides) : AllSlides[k].at # i
                    /\ \A b \in 1..Len(BlocksOf(AllSlides)) :
                          LET block == BlocksOf(AllSlides)[b]
                          IN (block.at > i /\ ClosesFence(lines, block.at)
                                /\ OpenerOf(lines, block.at) < i) =>
                                 Includes(block.text, lines[i]))

\* a text line, then a fence that holds <hr> and is closed: one slide with the
\* text and the code block
C19_Witness ==
    /\ pc = "parsed"
    /\ Len(lines) > 2
    /\ lines[Len(lines) - 1] = HrMarker
    /\ FenceOpenBefore(lines, Len(lines) - 1)
    /\ IsFence(lines[Len(lines)])
    /\ Len(slides) = 1
    /\ slides[1].content[Len(slides[1].content)].text = HrMarker

\* C20: every line that starts with the fence marker flips inCodeBlock; a
\* closing one appends one code block to the open slide, or to a new content
\* slide, and the blocks of type code are those of the closing lines, each
\* with the trimmed rest of its opening line as language and the lines in
\* between, split at the newlines, as text.
C20_FenceToggle ==
    /\ [][(pc = "parse" /\ pos <= Len(lines) /\ IsFence(lines[pos])) =>
            /\ inCodeBlock' = ~inCodeBlock
            /\ slides' = slides
            /\ inCodeBlock =>
                  /\ currentSlide'.type = (IF currentSlide.type = "null" THEN "content"
                                                                      ELSE currentSlide.type)
                  /\ Len(currentSlide'.content) = Len(currentSlide.content) + 1
                  /\ SubSeq(currentSlide'.content, 1, Len(currentSlide.content))
                        = currentSlide.content
                  /\ currentSlide'.content[Len(currentSlide'.content)].type = "code"
                  /\ currentSlide'.content[Len(currentSlide'.content)].at = pos
            /\ ~inCodeBlock => currentSlide' = currentSlide]_vars
    /\ [](pc \in {"parse", "parsed"} =>
            LET blocks == BlocksOf(SlidesSoFar)
            IN /\ \A j \in 1..(pos - 1) :
                     ClosesFence(lines, j) =>
                         Cardinality({b \in 1..Len(blocks) : blocks[b].at = j}) = 1
               /\ \A b \in 1..Len(blocks) :
                     blocks[b].type = "code" =>
                         LET j == blocks[b].at
                             o == OpenerOf(lines, j)
                             between == SubSeq(lines, o + 1, j - 1)
                         IN /\ ClosesFence(lines, j)
                            /\ blocks[b].language = Trim(SubstringFrom(lines[o], 3))
                            /\ IF between = <<>> THEN blocks[b].text = <<>>
                               ELSE SplitOn(blocks[b].text, "\n") = between)

\* a fence with a language, one line, closed by a fence line with text after
\* the marker
C20_Witness ==
    /\ pc = "parsed"
    /\ lines = <<FenceMarker \o <<"t">>, <<"x">>, FenceMarker \o <<"t">>>>
    /\ Len(slides) = 1
    /\ slides[1].type = "content"
    /\ slides[1].content[1].language = <<"t">>
    /\ slides[1].content[1].text = <<"x">>

-----------------------------------------------------------------------------
(* Properties of the transitions of the parser (Spec).                     *)

\* the for loop is about to read a line outside a fence
AtLineOutsideFence == pc = "parse" /\ pos <= Len(lines) /\ ~inCodeBlock

\* the retention rule: the open slide is emitted if it has a block
Retained == IF currentSlide.type # "null" /\ Len(currentSlide.content) > 0
            THEN Append(slides, currentSlide) ELSE slides

\* the blocks of the open slide, none when no slide is open
OpenBlocks == IF currentSlide.type = "null" THEN <<>> ELSE currentSlide.content

\* the step appends one block of the type to the open slide, or to a new
\* content slide without title, and emits nothing
AppendsOne(type) ==
    /\ slides' = slides
    /\ currentSlide'.type = (IF currentSlide.type = "null" THEN "content" ELSE currentSlide.type)
    /\ currentSlide'.title = currentSlide.title
    /\ currentSlide'.hasTitle = currentSlide.hasTitle
    /\ Len(currentSlide'.content) = Len(OpenBlocks) + 1
    /\ SubSeq(currentSlide'.content, 1, Len(OpenBlocks)) = OpenBlocks
    /\ currentSlide'.content[Len(currentSlide'.content)].type = type

HashSpace == <<"#", " ">>
HashHashSpace == <<"#", "#", " ">>
HashHashHashSpace == <<"#", "#", "#", " ">>

\* C21: outside a fence a line that starts with "# " emits the open slide
\* under the retention rule and opens a title slide, one that starts with
\* "## " does so with a section slide; the new slide has the trimmed rest of
\* the line as title and no block; a line that starts with "### " emits
\* nothing and adds a subtitle block to the open slide.
C21_HeaderTransition ==
    /\ [][(AtLineOutsideFence /\ StartsWith(lines[pos], HashSpace)) =>
            /\ slides' = Retained
            /\ currentSlide'.type = "title"
            /\ currentSlide'.title = Trim(SubstringFrom(lines[pos], 2))
            /\ currentSlide'.content = <<>>]_vars
    /\ [][(AtLineOutsideFence /\ StartsWith(lines[pos], HashHashSpace)) =>
            /\ slides' = Retained
            /\ currentSlide'.type = "section"
            /\ currentSlide'.title = Trim(SubstringFrom(lines[pos], 3))
            /\ currentSlide'.content = <<>>]_vars
    /\ [][(AtLineOutsideFence /\ StartsWith(lines[pos], HashHashHashSpace)) =>
            /\ AppendsOne("subtitle")
            /\ currentSlide'.content[Len(currentSlide'.content)].text
                  = Trim(SubstringFrom(lines[pos], 4))]_vars

\* a text, a title header after it and a subtitle line: the content slide of
\* the text is emitted, the title slide holds the subtitle
C21_Witness ==
    /\ pc = "parsed"
    /\ lines = << <<"x">>, <<"#", " ", "A">>, <<"#", "#", "#", " ", "c">> >>
    /\ Len(slides) = 2
    /\ slides[1].type = "content"
    /\ slides[2].type = "title"
    /\ slides[2].title = <<"A">>
    /\ slides[2].content[1].type = "subtitle"

\* C22: outside a fence a line whose trimmed content is "---" or "<hr>"
\* emits the open slide under the retention rule and leaves no slide open;
\* with no slide open it emits nothing, and no emitted slide is empty.
C22_BreakTransition ==
    /\ [][(AtLineOutsideFence /\ Trim(lines[pos]) \in {DashMarker, HrMarker}) =>
            /\ slides' = Retained
            /\ currentSlide'.type = "null"
            /\ (currentSlide.type = "null" => slides' = slides)
            /\ Len(BlocksOf(slides')) = Len(BlocksOf(slides)) + Len(OpenBlocks)]_vars
    /\ [](\A i \in 1..Len(slides) : slides[i].content # <<>>)

\* a text and two breaks in a row: one slide, none for the second break
C22_Witness ==
    /\ pc = "parsed"
    /\ lines = << <<"x">>, DashMarker, HrMarker >>
    /\ Len(slides) = 1
    /\ Len(slides[1].content) = 1
    /\ currentSlide.type = "null"

\* the block type a line of a content kind is pushed with
ContentKinds == {"subtitle", "list-item", "stat", "image", "text"}

\* C23: a line of a content kind, and the fence that closes a code block,
\* append one block to the end of the open slide, a slide of kind content
\* without title being created when none is open; in every state a content
\* slide has no title and a slide with a title is a title or section slide.
C23_LazySlide ==
    /\ [][(AtLineOutsideFence /\ LineKind(lines[pos], FALSE) \in ContentKinds) =>
            AppendsOne(LineKind(lines[pos], FALSE))]_vars
    /\ [][(pc = "parse" /\ pos <= Len(lines) /\ inCodeBlock /\ IsFence(lines[pos])) =>
            AppendsOne("code")]_vars
    /\ [](\A i \in 1..Len(AllSlides) :
            /\ AllSlides[i].type = "content" =>
                   ~AllSlides[i].hasTitle /\ AllSlides[i].title = <<>>
            /\ AllSlides[i].hasTitle => AllSlides[i].type \in {"title", "section"})

\* a list item with no slide open, then a text: one content slide without
\* title whose blocks are in the order of the lines
C23_Witness ==
    /\ pc = "parsed"
    /\ lines = << <<"-", " ", "i">>, <<"x">> >>
    /\ Len(slides) = 1
    /\ slides[1].type = "content"
    /\ ~slides[1].hasTitle
    /\ Len(slides[1].content) = 2
    /\ slides[1].content[1].type = "list-item"
    /\ slides[1].content[2].type = "text"

\* C24: the step after the last line emits the slide still open under the
\* retention rule and returns: an open slide with a block is the last
\* slide returned, an open slide without block is not returned.
C24_EndOfInput ==
    /\ [][(pc = "parse" /\ pos > Len(lines)) =>
            pc' = "parsed" /\ slides' = Retained]_vars
    /\ [](pc = "parsed" /\ currentSlide.type # "null" =>
            IF currentSlide.content # <<>>
            THEN slides # <<>> /\ slides[Len(slides)] = currentSlide
            ELSE \A i \in 1..Len(slides) : slides[i].at # currentSlide.at)

\* a break, a title and a text: the title slide is open at the end of the
\* input and is the last slide returned
C24_Witness ==
    /\ pc = "parsed"
    /\ lines = << DashMarker, <<"#", " ", "A">>, <<"x">> >>
    /\ Len(slides) = 1
    /\ slides[1] = currentSlide
    /\ currentSlide.type = "title"

\* C25: outside a fence a line that starts with "slides:" or with
\* "Also share with" changes no variable of the parser: no block, no new
\* slide, no slide closed, also when the stat test would accept the line.
C25_MetaDiscarded ==
    [][(AtLineOutsideFence /\ (StartsWith(lines[pos], SlidesPrefix)
                                  \/ StartsWith(lines[pos], AlsoSharePrefix))) =>
        UNCHANGED <<slides, currentSlide, inCodeBlock, codeBlockContent, codeBlockLang>>]_vars

\* "slides:1", which the stat test accepts, between two texts: one slide
\* with the two text blocks
C25_Witness ==
    /\ pc = "parsed"
    /\ lines = << <<"x">>, SlidesPrefix \o <<"1">>, <<"x">> >>
    /\ IsStat(lines[2], FALSE)
    /\ Len(slides) = 1
    /\ Len(slides[1].content) = 2
    /\ \A k \in 1..2 : slides[1].content[k].type = "text"

\* the number of the branches of the loop body that a step is an instance of
BranchesTaken ==
      (IF FenceOpen THEN 1 ELSE 0) + (IF FenceClose THEN 1 ELSE 0)
    + (IF CodeLine THEN 1 ELSE 0) + (IF MetaLine THEN 1 ELSE 0)
    + (IF BreakLine THEN 1 ELSE 0) + (IF TitleLine THEN 1 ELSE 0)
    + (IF SectionLine THEN 1 ELSE 0) + (IF SubtitleLine THEN 1 ELSE 0)
    + (IF ListItemLine THEN 1 ELSE 0) + (IF StatLine THEN 1 ELSE 0)
    + (IF ImageLine THEN 1 ELSE 0) + (IF TextLine THEN 1 ELSE 0)
    + (IF BlankLine THEN 1 ELSE 0)

\* the number of the blocks returned that line i created
BlocksAt(i) ==
    Cardinality({j \in 1..Len(BlocksOf(slides)) : BlocksOf(slides)[j].at = i})

\* line i is outside a fence and is no fence line, not empty after trim(),
\* no metadata line, no break and no "#" or "##" header
YieldsContent(ls, i) ==
    /\ ~FenceOpenBefore(ls, i)
    /\ ~IsFence(ls[i])
    /\ Trim(ls[i]) # <<>>
    /\ ~IsMeta(ls[i])
    /\ ~IsBreak(ls[i])
    /\ ~MatchHeader(ls[i], 1)
    /\ ~MatchHeader(ls[i], 2)

\* C27: parseMarkdown has a step to take in every state before it returns,
\* each step for a line moves to the next line and is an instance of
\* exactly one branch, the step after the last line returns; in the slides
\* returned every line outside a fence that is not a fence line, not empty,
\* no metadata line, no break and no "#"/"##" header has exactly one block.
C27_Totality ==
    /\ [](pc = "parse" => ENABLED ParseStep)
    /\ [][(pc = "parse" /\ pos <= Len(lines)) =>
            pc' = "parse" /\ pos' = pos + 1 /\ BranchesTaken = 1]_vars
    /\ [][(pc = "parse" /\ pos > Len(lines)) => pc' = "parsed"]_vars
    /\ [](pc = "parsed" =>
            \A i \in 1..Len(lines) : YieldsContent(lines, i) => BlocksAt(i) = 1)

\* a list item, a stat and an image line: three blocks, one for each line
C27_Witness ==
    /\ pc = "parsed"
    /\ lines = << <<"-", " ", "i">>, <<"k", ":", " ", "1">>,
                  <<"!", "[", "a", "]", "(", "s", ")">> >>
    /\ \A i \in 1..3 : YieldsContent(lines, i) /\ BlocksAt(i) = 1
    /\ Len(slides) = 1

\* line i creates a block: a content line outside a fence, or the fence
\* line that closes a code block
CreatesBlock(ls, i) == YieldsContent(ls, i) \/ ClosesFence(ls, i)

\* C31: the blocks of the slides built so far, concatenated in the order of
\* the slides, are one block for each line read that creates a block and
\* none for the other lines, in the order of the lines; the slides are in
\* the order of the lines that opened them and a block is in the slide
\* that was open when its line was read.
C31_NoContentLost ==
    LET ss == SlidesSoFar
        bs == BlocksOf(ss)
    IN /\ \A i \in 1..(pos - 1) :
             Cardinality({j \in 1..Len(bs) : bs[j].at = i})
                = (IF CreatesBlock(lines, i) THEN 1 ELSE 0)
       /\ \A j \in 1..Len(bs) : bs[j].at \in 1..(pos - 1)
       /\ \A j, k \in 1..Len(bs) : j < k => bs[j].at < bs[k].at
       /\ \A j, k \in 1..Len(ss) : j < k => ss[j].at < ss[k].at
       /\ \A j \in 1..Len(ss) : \A k \in 1..Len(ss[j].content) :
             /\ ss[j].content[k].at >= ss[j].at
             /\ j < Len(ss) => ss[j].content[k].at < ss[j + 1].at

\* a text, a section header, a list item: two slides returned, the blocks
\* of lines 1 and 3 in this order
C31_Witness ==
    /\ pc = "parsed"
    /\ lines = << <<"x">>, <<"#", "#", " ", "B">>, <<"-", " ", "i">> >>
    /\ Len(slides) = 2
    /\ Len(BlocksOf(slides)) = 2
    /\ BlocksOf(slides)[1].at = 1
    /\ BlocksOf(slides)[2].at = 3

\* C32: while a fence is open, and so at the return when no later line
\* closed it, every block and every slide built was created before the line
\* that opened the fence; a line read inside the fence that is no fence
\* line leaves the slides and the open slide as they are, and the step after
\* the last line returns the slides under the retention rule, without a
\* code block for the lines collected.
C32_UnclosedFence ==
    /\ [](FenceOpenBefore(lines, pos) =>
            LET o == OpenerOf(lines, pos)
            IN /\ \A j \in 1..Len(BlocksOf(SlidesSoFar)) : BlocksOf(SlidesSoFar)[j].at < o
               /\ \A j \in 1..Len(SlidesSoFar) : SlidesSoFar[j].at < o)
    /\ [][(pc = "parse" /\ pos <= Len(lines) /\ FenceOpenBefore(lines, pos)
              /\ ~IsFence(lines[pos])) =>
            UNCHANGED <<slides, currentSlide>>]_vars
    /\ [][(pc = "parse" /\ pos > Len(lines) /\ FenceOpenBefore(lines, pos)) =>
            slides' = Retained]_vars

\* a text, a fence and a title header: the header is inside the fence, the
\* slide of the text is all that is returned
C32_Witness ==
    /\ pc = "parsed"
    /\ lines = << <<"x">>, FenceMarker, <<"#", " ", "A">> >>
    /\ FenceOpenBefore(lines, pos)
    /\ Len(slides) = 1
    /\ Len(slides[1].content) = 1
    /\ slides[1].content[1].type = "text"
    /\ codeBlockContent = << <<"#", " ", "A">> >>

-----------------------------------------------------------------------------
(* Properties of empty lines (SpecBlank).                                  *)

\* a slide sequence without the history fields
WithoutAt(ss) ==
    [i \in 1..Len(ss) |->
        [ss[i] EXCEPT !.at = 0,
                      !.content = [j \in 1..Len(ss[i].content) |->
                                      [ss[i].content[j] EXCEPT !.at = 0]]]]

\* C26: outside a fence a line that is empty after trim() changes no
\* variable of the parser, and the document without these lines is parsed
\* to the same slides.
C26_BlankLine ==
    /\ [][(AtLineOutsideFence /\ Trim(lines[pos]) = <<>>) =>
            UNCHANGED <<slides, currentSlide, inCodeBlock, codeBlockContent, codeBlockLang>>]_vars
    /\ [](Len(runs) = 2 =>
            /\ runs[2].input = WithoutBlanks(runs[1].input)
            /\ WithoutAt(runs[2].result) = WithoutAt(runs[1].result))

\* "x", a line of one space and "x": parsed to one slide of two texts, as
\* the two lines "x", "x" are
C26_Witness ==
    /\ Len(runs) = 2
    /\ runs[1].input = << <<"x">>, <<" ">>, <<"x">> >>
    /\ runs[2].input = << <<"x">>, <<"x">> >>
    /\ Len(runs[2].result) = 1
    /\ Len(runs[2].result[1].content) = 2

-----------------------------------------------------------------------------
(* Properties of the class and the divider of a slide (SpecDeck).          *)

TerminalClass == " terminal-slide"

\* the slide has a code block whose language is exactly "terminal"
HasTerminalBlock(slide) ==
    \E k \in 1..Len(slide.content) :
        slide.content[k].type = "code" /\ slide.content[k].language = TerminalLang

\* C28, as stated: a slide has the class terminal-slide if and only if it
\* has no title and has a code block of language "terminal", and a slide of
\* kind title or section never has the class.
C28_AsStated ==
    \A i \in 1..Len(slideHTML) :
        /\ Has(slideHTML[i], TerminalClass) <=>
               (slides[i].title = <<>> /\ HasTerminalBlock(slides[i]))
        /\ slides[i].type \in {"title", "section"} => ~Has(slideHTML[i], TerminalClass)

\* C28: a slide has the class terminal-slide if and only if its title is
\* absent or empty and it has a code block of language "terminal"; a slide
\* of kind title or section has the class only when its header has no text.
C28_TerminalClass ==
    \A i \in 1..Len(slideHTML) :
        /\ Has(slideHTML[i], TerminalClass) <=>
               (slides[i].title = <<>> /\ HasTerminalBlock(slides[i]))
        /\ (slides[i].type \in {"title", "section"} /\ slides[i].title # <<>>) =>
               ~Has(slideHTML[i], TerminalClass)
        /\ (slides[i].type \in {"title", "section"} /\ slides[i].title = <<>>
              /\ HasTerminalBlock(slides[i])) => Has(slideHTML[i], TerminalClass)

\* "## " without text, then a terminal block: a section slide with the
\* class; after it "# A" with a terminal block: a title slide without
C28_Witness ==
    /\ pc = "rendered"
    /\ lines = << <<"#", "#", " ">>, FenceMarker \o TerminalLang, <<"x">>, FenceMarker >>
    /\ Len(slideHTML) = 1
    /\ slides[1].type = "section"
    /\ slides[1].title = <<>>
    /\ HasTerminalBlock(slides[1])
    /\ Has(slideHTML[1], TerminalClass)

\* C29: the fragment of a slide holds the divider if and only if the slide
\* is of kind title and has a text block; the fragment of a section or
\* content slide never holds it.
C29_Divider ==
    \A i \in 1..Len(slideHTML) :
        /\ Has(slideHTML[i], DividerTag) <=>
               (slides[i].type = "title"
                  /\ \E k \in 1..Len(slides[i].content) : slides[i].content[k].type = "text")
        /\ slides[i].type \in {"section", "content"} => ~Has(slideHTML[i], DividerTag)

\* a title slide with a text, a section slide with a text: the divider is
\* in the first fragment only
C29_Witness ==
    /\ pc = "rendered"
    /\ lines = << <<"#", " ", "A">>, <<"x">>, <<"#", "#", " ", "B">>, <<"x">> >>
    /\ Len(slideHTML) = 2
    /\ Has(slideHTML[1], DividerTag)
    /\ ~Has(slideHTML[2], DividerTag)

-----------------------------------------------------------------------------
(* Properties of the items of the ranked grid (SpecRender).                *)

\* the text before the first em-dash and the text after it, trimmed
NamePart(text) == Trim(SubSeq(text, 1, IndexOfChar(text, EmDash) - 1))
StatsPart(text) == Trim(SubSeq(text, IndexOfChar(text, EmDash) + 1, Len(text)))

\* the fragment holds the span of the name and the span of the stats
BothPartsRendered(frag, text) ==
    /\ Includes(frag, <<"                    <span style=\"color: #7878EF; font-weight: 700;\">">>
                         \o NamePart(text) \o <<"</span>\n">>)
    /\ Includes(frag, <<"                    <span>">> \o Strong(StatsPart(text), 1) \o <<"</span>\n">>)

\* C30, as stated: in the grid every list item with an em-dash is rendered
\* as the part before its first em-dash and the part after it, further
\* em-dashes being part of the second.
C30_AsStated ==
    \A i \in 1..Len(slideHTML) :
        LET listItems == OfType(slides[i].content, "list-item")
        IN Has(slideHTML[i], TopListOpen) =>
              \A k \in 1..Len(listItems) :
                  (IndexOfChar(listItems[k].text, EmDash) > 0 /\ ~IsLink(listItems[k].text)) =>
                      BothPartsRendered(slideHTML[i], listItems[k].text)

\* the text an entry of the list shows first: the part before the em-dash
\* of an item that has one, the text of the item otherwise
LeadOf(text) == IF IndexOfChar(text, EmDash) > 0 THEN NamePart(text) ELSE Trim(text)

\* C34, as stated: the fragment of a slide holds one entry for each list
\* item of the slide, a top-item in the grid and an li in the plain list,
\* and the k-th entry is that of the k-th item.
C34_AsStated ==
    \A i \in 1..Len(slideHTML) :
        LET listItems == OfType(slides[i].content, "list-item")
            entries == IF Has(slideHTML[i], TopListOpen)
                       THEN Elements(slideHTML[i], TopItemOpen, "                </div>\n")
                       ELSE Elements(slideHTML[i], LiOpen, LiClose)
        IN /\ Len(entries) = Len(listItems)
           /\ \A k \in 1..Len(listItems) : Includes(entries[k], LeadOf(listItems[k].text))

-----------------------------------------------------------------------------
(* Properties of the pipeline (SpecPipeline).                              *)

Count(frag, tok) == Cardinality({k \in 1..Len(frag) : frag[k] = tok})

\* C12: the document "# Title", "Intro text", "", "---", "", "## Stats",
\* "packages: 100", "users: 50" yields two slides: a title slide whose only
\* block is the text "Intro text" and whose fragment holds the divider, and a
\* section slide "Stats" whose two stat blocks are the two cards of one grid.
C12_EndToEnd ==
    (pc = "rendered" /\ lines = EndToEndLines) =>
        /\ Len(slides) = 2
        /\ Len(slideHTML) = 2
        /\ slides[1].type = "title"
        /\ slides[1].title = SubstringFrom(EndToEndLines[1], 2)
        /\ Len(slides[1].content) = 1
        /\ slides[1].content[1].type = "text"
        /\ slides[1].content[1].text = EndToEndLines[2]
        /\ Count(slideHTML[1], DividerTag) = 1
        /\ Count(slideHTML[1], StatGridOpen) = 0
        /\ slides[2].type = "section"
        /\ slides[2].title = <<"S", "t", "a", "t", "s">>
        /\ Len(slides[2].content) = 2
        /\ \A k \in 1..2 : slides[2].content[k].type = "stat"
        /\ slides[2].content[1].key = <<"p", "a", "c", "k", "a", "g", "e", "s">>
        /\ slides[2].content[1].value = <<"1", "0", "0">>
        /\ slides[2].content[2].key = <<"u", "s", "e", "r", "s">>
        /\ slides[2].content[2].value = <<"5", "0">>
        /\ Count(slideHTML[2], StatGridOpen) = 1
        /\ Count(slideHTML[2], StatCardOpen) = 2
        /\ Count(slideHTML[2], DividerTag) = 0
        /\ \E g \in 1..Len(slideHTML[2]) :
              /\ slideHTML[2][g] = StatGridOpen
              /\ \A k \in 1..Len(slideHTML[2]) : slideHTML[2][k] = StatCardOpen => g < k
        /\ Elements(slideHTML[2], BigNumberOpen, SpanCloseLine) = <<<<"1", "0", "0">>, <<"5", "0">>>>

\* the whole document parsed and rendered
C12_Witness ==
    /\ pc = "rendered"
    /\ lines = EndToEndLines
    /\ Len(html) > 0

-----------------------------------------------------------------------------
(* Properties of generateSlides, the single-shot run and watch mode        *)
(* (SpecRun).                                                              *)

LastMessage == IF Len(console) = 0 THEN <<>> ELSE console[Len(console)]

\* C13 as stated: a single-shot run whose read of text.md failed has
\* reported the error and ended with a non-zero exit status.
C13_AsStated ==
    (pc = "exited" /\ caller = "single" /\ retval = "false" /\ lines = <<>>) =>
        /\ LastMessage = ErrorMessage
        /\ exitCode # 0

\* C14: while generateSlides has not produced the document, and after it
\* failed to (the read or the rendering threw), index.html holds what it held
\* when generateSlides was called; such a call has reported the error and
\* returned false.
C14_NoOverwrite ==
    /\ ((pc \in {"parse", "parsed", "render", "threw", "returned"} /\ html = <<>>)
           \/ pc = "rendered") => outFile = outBefore
    /\ (pc = "returned" /\ html = <<>>) => (retval = "false" /\ LastMessage = ErrorMessage)

\* generateSlides returned false in watch mode because the rendering threw,
\* and the document of an earlier run is still there
C14_Witness ==
    /\ pc = "returned"
    /\ caller = "watch"
    /\ retval = "false"
    /\ lines = ThrowingFile.content
    /\ html = <<>>
    /\ outFile = EarlierDocument

\* C15 as stated: lastModified changes only when generateSlides has just
\* written index.html, and no response carries a value greater than the time
\* of the last completed write.
C15_AsStated ==
    /\ [](\A k \in 1..Len(responses) : responses[k].modified <= responses[k].written)
    /\ [][lastModified' # lastModified => (retval = "true" /\ outFile = html)]_vars

\* C16 as stated: the values of the responses never decrease, lastModified
\* never decreases, and a regeneration that returned true makes it greater.
C16_AsStated ==
    /\ [](\A i, j \in 1..Len(responses) :
            i < j => responses[i].modified <= responses[j].modified)
    /\ [][lastModified' >= lastModified]_vars
    /\ [][(pc = "returned" /\ caller = "watch" /\ retval = "true" /\ pc' = "idle")
            => lastModified' > lastModified]_vars

\* C17: a regeneration that returned false has logged the error, the callback
\* returns to the event loop, the server goes on listening, the watcher fires
\* on the next change, and a watching process ends by a restart only.
C17_WatchSurvives ==
    /\ (caller = "watch" /\ retval = "false" /\ pc \in {"returned", "idle"}) =>
           /\ LastMessage = ErrorMessage
           /\ listening
           /\ pc = "returned" => ENABLED WatchCallbackEnd
           /\ (pc = "idle" /\ statChanged /\ now > polledAt) => ENABLED WatchCallback
    /\ (caller # "single" /\ pc = "exited") => LastMessage = RestartingMessage

\* a regeneration attempt that follows a failed one
C17_Witness ==
    /\ caller = "watch"
    /\ pc = "call"
    /\ Len(console) >= 2
    /\ console[Len(console) - 1] = ErrorMessage
    /\ LastMessage = ChangedMessage
    /\ \E k \in 1..(Len(console) - 2) : console[k] = ChangedMessage

\* C18: the process and the one it spawned never both listen on the port, the
\* spawned one finds the port free, the spawning one has closed its server
\* when the other exists, and it exits.
C18_Handoff ==
    /\ ~(listening /\ child = "listening")
    /\ child # "conflict"
    /\ child # "none" => (~listening /\ pc \in {"exiting", "exited"})
    /\ pc = "exiting" => ENABLED ProcessExit

\* the spawned process listens while the one that spawned it has not exited
C18_Witness ==
    /\ pc = "exiting"
    /\ child = "listening"

\* C33, as stated: generateHTML does not throw on the slides parseMarkdown
\* returned: generateSlides reaches its catch block only when the source
\* file could not be read.
C33_AsStated == pc = "threw" => ~srcFile.readable

\* let lastModified = ${Date.now()}: the clock value the page in the file
\* starts from
EmbeddedIn(file) ==
    CHOOSE n \in 0..MaxClock :
        \E k \in 1..(Len(file) - 1) : file[k] = ShellScript /\ file[k + 1] = ToString(n)

\* C35, as stated: when the process waits for events after a regeneration
\* that returned true, the clock value embedded in the page it wrote is not
\* smaller than the value /check-update returns, so that a page loaded from
\* the file does not reload.
C35_AsStated ==
    (pc = "idle" /\ listening /\ retval = "true" /\ outFile = html) =>
        EmbeddedIn(outFile) >= lastModified

-----------------------------------------------------------------------------
(* Properties of repeated rendering (SpecRerender).                        *)

\* C11: every call of generateHTML on the same slides returns the same
\* fragments, and no step of generateHTML changes the slide sequence or a
\* block of it.
C11_RenderIdempotent ==
    /\ [](\A i, j \in 1..Len(renders) : renders[i] = renders[j])
    /\ [][slides' = slides]_vars

\* a deck of two slides rendered twice, the second slide holding a stat
C11_Witness ==
    /\ pc = "rendered"
    /\ Len(renders) = 2
    /\ Len(slides) = 2
    /\ Len(renders[2]) = 2
    /\ slides[2].content[1].type = "stat"

====
